---------------------------- MODULE Spec2Model ----------------------------
(***************************************************************************)
(* Model of the concurrent query-dispatch engine of dns_mcp_server.        *)
(*                                                                         *)
(* One behaviour is one call of one operation.  The main coroutine runs    *)
(* synchronously up to its asyncio.gather (action Call), the per-input     *)
(* tasks then interleave at their suspension points (semaphore, rate       *)
(* limiter, network), and the main coroutine resumes when every task is    *)
(* done (action Finish).                                                   *)
(*                                                                         *)
(* Strings the code inspects character by character (record types) are     *)
(* sequences of one-character strings; error messages are sequences of     *)
(* word tokens.  A Python dict is a record with a field "keys" holding the *)
(* keys that are present.                                                  *)
(***************************************************************************)
EXTENDS Integers, Sequences, FiniteSets, TLC

VARIABLES
    op,                 \* the operation called
    domains,            \* the domains argument (the one domain of a single query)
    ips,                \* the ips argument (the one ip of a single reverse lookup)
    record_type,        \* the record_type argument
    nameserver,         \* the nameserver argument ("None" when absent)
    resolver_type,      \* the resolver_type argument
    max_workers,        \* the max_workers argument
    resolvers,          \* the resolvers argument of dns_propagation_check
    test_count,         \* the test_count argument ({} when None)
    iterations,         \* the iterations argument ({} when None)
    random_labels,      \* the labels the random source yields to dns_wildcard_check
    error,              \* the error argument of format_error_response
    context,            \* the context argument of format_error_response
    timeout,            \* the timeout argument, in seconds
    raw_record,         \* the record argument of _format_record
    rate_limit,         \* DNSRateLimiter.rate_limit of the limiter in use
    keys,               \* the key each direct caller of acquire passes
    opState,            \* position of the main coroutine
    actual_workers,     \* the local actual_workers (0 until computed)
    semaphore,          \* the asyncio.Semaphore of the call
    pc,                 \* position of each task
    results,            \* the gather slot of each task
    completed,          \* task indices in completion order
    resolvers_created,  \* number of create_resolver calls
    _throttlers,        \* DNSRateLimiter._throttlers: key -> Throttler (its address)
    heap,               \* the Throttler objects, by address
    acq,                \* per task: keys acquired on the rate limiter, in order
    since,              \* per task: ticks since its acquisition completed (history)
    issued,             \* per task: underlying resolutions issued
    outcome,            \* per task: how its resolver call ended (history)
    report              \* what the operation returned (or the exception raised)

vars == <<op, domains, ips, record_type, nameserver, resolver_type, max_workers,
          resolvers, test_count, iterations, random_labels, error, context, timeout,
          raw_record, rate_limit, keys, opState, actual_workers, semaphore, pc, results, completed,
          resolvers_created, _throttlers, heap, acq, since, issued, outcome, report>>

inputs == <<op, domains, ips, record_type, nameserver, resolver_type, max_workers,
            resolvers, test_count, iterations, random_labels, error, context, timeout,
            raw_record, rate_limit, keys>>

--------------------------------------------------------------------------
(* Bounds of the model *)

MaxDomains == 3

\* Clock ticks in one throttler period (period=1.0 second)
TicksPerPeriod == 2

\* Concurrent direct callers of DNSRateLimiter.acquire
MaxAcquirers == 3

\* Entries of a custom resolvers dict
MaxResolvers == 3

\* The largest test_count whose probes are given every outcome
MaxTestCount == 2

\* The largest explicit iterations argument
MaxIterations == 3

\* The record types of dns_query_all that are given every outcome
MaxVariedTypes == 2

\* The longest error message format_error_response is given, in fragments
MaxMessageLen == 2

(* Program constants *)

DefaultMaxWorkers == 10

\* The default of the timeout parameter of every tool, in seconds.
DefaultTimeout == 10

max_concurrent_workers == 50

\* dns_rate_limiter = DNSRateLimiter(rate_limit=30)
GlobalRateLimit == 30

dns_query_all_concurrency == 3

default_propagation_iterations == 10

default_wildcard_test_count == 3

max_wildcard_test_count == 10

wildcard_subdomain_length == 32

anomaly_threshold_multiplier == 2

--------------------------------------------------------------------------
(* Generic helpers *)

Min(a, b) == IF a < b THEN a ELSE b

Max(a, b) == IF a > b THEN a ELSE b

SeqsUpTo(S, n) == UNION { [1..k -> S] : k \in 0..n }

--------------------------------------------------------------------------
(* str.upper() on the characters record types are written with *)

LowerLetters == <<"a","b","c","d","e","f","g","h","i","j","k","l","m",
                  "n","o","p","q","r","s","t","u","v","w","x","y","z">>

UpperLetters == <<"A","B","C","D","E","F","G","H","I","J","K","L","M",
                  "N","O","P","Q","R","S","T","U","V","W","X","Y","Z">>

UpperChar(c) ==
    IF \E k \in DOMAIN LowerLetters : LowerLetters[k] = c
    THEN UpperLetters[CHOOSE k \in DOMAIN LowerLetters : LowerLetters[k] = c]
    ELSE c

Upper(s) == [k \in DOMAIN s |-> UpperChar(s[k])]

(* str.lower(), the order of str and sorted() on lists of str *)

LowerChar(c) ==
    IF \E k \in DOMAIN UpperLetters : UpperLetters[k] = c
    THEN LowerLetters[CHOOSE k \in DOMAIN UpperLetters : UpperLetters[k] = c]
    ELSE c

Lower(s) == [k \in DOMAIN s |-> LowerChar(s[k])]

\* The characters of the model in code point order
CodeOrder ==
    <<"-", ".", "0", "1", "2", "3", "4", "5", "6", "7", "8", "9">>
        \o UpperLetters \o LowerLetters

Ord(c) == CHOOSE n \in DOMAIN CodeOrder : CodeOrder[n] = c

\* a < b for two str
RECURSIVE StrLess(_, _)
StrLess(a, b) ==
    IF b = <<>> THEN FALSE
    ELSE IF a = <<>> THEN TRUE
    ELSE IF Head(a) # Head(b) THEN Ord(Head(a)) < Ord(Head(b))
    ELSE StrLess(Tail(a), Tail(b))

\* x put into the sorted list l after the elements that are not greater
RECURSIVE InsertSorted(_, _)
InsertSorted(x, l) ==
    IF l = <<>> THEN <<x>>
    ELSE IF StrLess(x, Head(l)) THEN <<x>> \o l
    ELSE <<Head(l)>> \o InsertSorted(x, Tail(l))

\* sorted(l)
RECURSIVE sorted(_)
sorted(l) == IF l = <<>> THEN <<>> ELSE InsertSorted(Head(l), sorted(Tail(l)))

\* `needle in s` for two str
Contains(s, needle) ==
    \E k \in 0..(Len(s) - Len(needle)) :
        \A n \in DOMAIN needle : s[k + n] = needle[n]

--------------------------------------------------------------------------
(* config.py *)

SUPPORTED_RECORD_TYPES ==
    { <<"A">>, <<"A","A","A","A">>, <<"M","X">>, <<"T","X","T">>, <<"N","S">>,
      <<"S","O","A">>, <<"C","N","A","M","E">>, <<"C","A","A">>,
      <<"S","R","V">>, <<"P","T","R">> }

validate_max_workers(workers) == Max(1, Min(workers, max_concurrent_workers))

\* A plausible slip: the count capped but not floored
validate_wildcard_count_no_floor(count) == Min(count, max_wildcard_test_count)

validate_wildcard_count(count) == Max(1, Min(count, max_wildcard_test_count))

\* string.ascii_lowercase + string.digits
SubdomainAlphabet ==
    LowerLetters \o <<"0", "1", "2", "3", "4", "5", "6", "7", "8", "9">>

\* The n-th of the random subdomain labels secrets.choice can yield: labels
\* of different n differ
RandomLabel(n) ==
    [j \in 1..wildcard_subdomain_length |->
        SubdomainAlphabet[((n + j) % Len(SubdomainAlphabet)) + 1]]

CDN_INDICATORS ==
    { <<"c","l","o","u","d","f","l","a","r","e">>, <<"a","m","a","z","o","n","a","w","s">>,
      <<"c","l","o","u","d","f","r","o","n","t">>, <<"f","a","s","t","l","y">>,
      <<"c","d","n">>, <<"a","k","a","m","a","i">>, <<"e","d","g","e","c","a","s","t">>,
      <<"m","a","x","c","d","n">>, <<"k","e","y","c","d","n">> }

\* is_cdn_related on a str
is_cdn_related(record) ==
    \E indicator \in CDN_INDICATORS : Contains(Lower(record), indicator)

(* resolvers.py *)

RESOLVER_CONFIGS == {"public", "google", "cloudflare", "quad9", "opendns"}

\* AsyncDNSResolver.__init__: the resolver_id of a resolver built by
\* create_resolver(nameserver, resolver_type); with one nameserver the
\* joined list is that nameserver.
ResolverId(ns, rtype) ==
    IF ns # "None" THEN <<"custom", ns>>
    ELSE IF rtype \in RESOLVER_CONFIGS THEN <<rtype>>
    ELSE <<"system">>

\* The keys of query_type_map
query_type_map == SUPPORTED_RECORD_TYPES

\* param_utils.ensure_int on an int
ensure_int(value) == value

--------------------------------------------------------------------------
(* Exceptions and format_error_response *)

NoError == [error |-> "none", type |-> "none", details |-> <<>>]

UnsupportedRecordType(rt) ==
    [type |-> "ValueError", msg |-> <<"Unsupported", "record", "type:">> \o rt]

InvalidAddress == [type |-> "SyntaxError", msg |-> <<"Text", "input", "is", "malformed.">>]

SemaphoreValueError ==
    [type |-> "ValueError", msg |-> <<"Semaphore", "initial", "value", "must", "be", ">=", "0">>]

NxDomain == [type |-> "DNSError", msg |-> <<"NXDOMAIN">>]

\* The error argument of an operation that formats no error
\* No record: the operation is not _format_record
NoRecord == [attrs |-> <<>>, str |-> ""]

NoException == [type |-> "None", msg |-> <<>>]

Has(msg, tok) == \E k \in DOMAIN msg : msg[k] = tok

LowerTok(tok) ==
    IF tok \in {"Timeout", "TIMEOUT", "timeout"} THEN "timeout" ELSE tok

format_error_response(e) ==
    IF Has(e.msg, "NXDOMAIN") \/ Has(e.msg, "No such domain")
    THEN [error |-> "domain_not_found", type |-> "NXDOMAIN", details |-> e.msg]
    ELSE IF Has(e.msg, "No answer") \/ Has(e.msg, "NODATA")
    THEN [error |-> "no_records", type |-> "NoAnswer", details |-> e.msg]
    ELSE IF (\E k \in DOMAIN e.msg : LowerTok(e.msg[k]) = "timeout")
            \/ e.type \in {"Timeout", "TimeoutError", "LifetimeTimeout"}
    THEN [error |-> "timeout", type |-> "Timeout", details |-> e.msg]
    ELSE IF Has(e.msg, "SERVFAIL")
    THEN [error |-> "server_failure", type |-> "SERVFAIL", details |-> e.msg]
    ELSE IF Has(e.msg, "REFUSED")
    THEN [error |-> "query_refused", type |-> "REFUSED", details |-> e.msg]
    ELSE [error |-> "unknown", type |-> e.type, details |-> e.msg]

--------------------------------------------------------------------------
(* The inputs the model draws *)

Domains == {"a.com", "b.com"}

ValidIps == {"192.0.2.1"}

Ips == ValidIps \cup {"not-an-ip"}

RecordTypeInputs == { <<"A">>, <<"m","x">>, <<"s","p","f">> }

\* The record types the bulk calls are drawn with: a supported type in lower
\* case and an unsupported one
BulkRecordTypeInputs == { <<"a">>, <<"s","p","f">> }

MaxWorkersInputs == {-1, 0, 1, 2, max_concurrent_workers + 10}

Nameservers == {"None", "1.1.1.1"}

ResolverTypes == {"system", "google", "example"}

\* The resolver_type the bulk calls are drawn with
BulkResolverTypes == {"system"}

\* What the underlying resolution of one query can do
OkOutcome == [ok |-> TRUE, records |-> <<"192.0.2.10">>, exc |-> NxDomain]

FailOutcome == [ok |-> FALSE, records |-> <<>>, exc |-> NxDomain]

Outcomes == {OkOutcome, FailOutcome}

\* Records as str
RecA == <<"a">>

RecB == <<"b">>

\* The record lists one resolver may answer a propagation query with
RecordLists ==
    { <<>>, <<RecA>>, <<RecB>>, <<RecA, RecB>>, <<RecB, RecA>>, <<RecA, RecA>>,
      <<RecA, RecA, RecB>> }

\* A record that names a CDN in mixed case
RecCdn == <<"C","d","n">>

Answer(records) == [ok |-> TRUE, records |-> records, exc |-> NxDomain]

BulkOps == {"dns_bulk_query", "dns_bulk_reverse_lookup"}

\* The operations whose tasks run under an asyncio.Semaphore
SemaphoreOps == BulkOps \cup {"dns_query_all"}

SingleOps == {"dns_query", "dns_reverse_lookup"}

\* The tool operations of the server that the model covers
ToolOps == BulkOps \cup SingleOps

ReverseOps == {"dns_reverse_lookup", "dns_bulk_reverse_lookup"}

\* Direct callers of DNSRateLimiter.acquire, one task per call
LimiterOps == {"acquire"}

\* config.DEFAULT_PROPAGATION_RESOLVERS, its items in insertion order
DEFAULT_PROPAGATION_RESOLVERS ==
    << <<"google", "8.8.8.8">>, <<"cloudflare", "1.1.1.1">>, <<"quad9", "9.9.9.9">>,
       <<"opendns", "208.67.222.222">>, <<"level3", "4.2.2.1">>,
       <<"verisign", "64.6.64.6">> >>

\* The resolvers argument: None, or a dict (its items in insertion order) of
\* up to MaxResolvers entries; two of its names may share an ip
ResolversInputs ==
    LET CustomResolvers(n) ==
            [k \in 1..n |->
                << <<"test", k>>, IF k % 2 = 1 THEN "1.1.1.1" ELSE "8.8.8.8" >>]
    IN  { [none |-> TRUE, items |-> <<>>] }
            \cup { [none |-> FALSE, items |-> CustomResolvers(n)] :
                       n \in 0..MaxResolvers }

\* test_count after the default and validate_wildcard_count
EffectiveTestCount ==
    validate_wildcard_count(IF test_count = {} THEN default_wildcard_test_count
                            ELSE CHOOSE c \in test_count : TRUE)

\* test_subdomains: f"{random_subdomain}.{domain}" as the pair of its label
\* and the domain
test_subdomains == [k \in DOMAIN random_labels |-> <<random_labels[k], domains[1]>>]

\* The probes of dns_wildcard_check: an A and a CNAME query per test subdomain
WildcardTasks ==
    [n \in 1..(2 * Len(random_labels)) |->
        << test_subdomains[(n + 1) \div 2],
           IF n % 2 = 1 THEN <<"A">> ELSE <<"C","N","A","M","E">> >>]

\* A plausible slip: PTR queried with the others
QueryAllRecordTypesWithPtr ==
    << <<"A">>, <<"A","A","A","A">>, <<"M","X">>, <<"T","X","T">>, <<"N","S">>,
       <<"S","O","A">>, <<"C","N","A","M","E">>, <<"C","A","A">>, <<"S","R","V">>,
       <<"P","T","R">> >>

\* record_types of dns_query_all
QueryAllRecordTypes ==
    << <<"A">>, <<"A","A","A","A">>, <<"M","X">>, <<"T","X","T">>, <<"N","S">>,
       <<"S","O","A">>, <<"C","N","A","M","E">>, <<"C","A","A">>, <<"S","R","V">> >>

\* iterations after the default
EffectiveIterations ==
    IF iterations = {} THEN default_propagation_iterations
    ELSE CHOOSE n \in iterations : TRUE

\* The list the operation fans out over
Inputs ==
    IF op \in ReverseOps THEN ips
    ELSE IF op \in LimiterOps THEN keys
    ELSE IF op = "dns_propagation_check"
    THEN (IF resolvers.none THEN DEFAULT_PROPAGATION_RESOLVERS ELSE resolvers.items)
    ELSE IF op = "dns_wildcard_check" THEN WildcardTasks
    ELSE IF op = "dns_query_all" THEN QueryAllRecordTypes
    ELSE IF op = "dns_response_analysis" THEN [k \in 1..EffectiveIterations |-> k]
    ELSE domains

Tasks == DOMAIN Inputs

\* What the underlying resolution of task i of this call can do.  Every
\* answer is tried for up to MaxResolvers resolvers, for the probes of up to
\* MaxTestCount distinct test subdomains (those of the first two) and for the
\* first MaxVariedTypes record types of dns_query_all; beyond that a query
\* fails or returns one record,
\* and with more than MaxTestCount + 1 test subdomains the probes past the
\* first subdomain fail.  The response times of dns_response_analysis lie
\* around the rating thresholds for one iteration, vary freely for up to
\* MaxIterations, and beyond that only the first iteration can be slow.
OutcomesOf(i) ==
    CASE op = "dns_propagation_check" ->
             IF Len(Inputs) <= MaxResolvers
             THEN {FailOutcome} \cup {Answer(r) : r \in RecordLists}
             ELSE {FailOutcome, Answer(<<RecA>>), Answer(<<RecB>>)}
      [] op = "dns_wildcard_check" ->
             IF /\ Len(random_labels) <= MaxTestCount
                /\ i <= 4
                /\ \A j, k \in DOMAIN random_labels :
                       random_labels[j] = random_labels[k] => j = k
             THEN {FailOutcome, Answer(<<>>), Answer(<<RecA>>), Answer(<<RecB>>),
                   Answer(<<RecCdn>>)}
             ELSE IF Len(random_labels) <= MaxTestCount + 1 \/ i <= 2
             THEN {FailOutcome, Answer(<<RecA>>)}
             ELSE {FailOutcome}
      [] op = "dns_query_all" ->
             IF i <= MaxVariedTypes
             THEN {FailOutcome, Answer(<<>>), Answer(<<RecA>>), Answer(<<RecA, RecB>>)}
             ELSE {FailOutcome, Answer(<<RecA>>)}
      [] op = "dns_response_analysis" ->
             \* a failure, or an answer after a response time in units of
             \* 0.0001 s
             {FailOutcome}
                 \cup { [ok |-> TRUE, records |-> <<RecA>>, exc |-> NxDomain, time |-> t] :
                          t \in IF Len(Inputs) = 1
                                THEN {999, 1000, 2999, 3000, 4999, 5000, 9999, 10000}
                                ELSE IF Len(Inputs) <= MaxIterations
                                THEN {100, 200, 1000}
                                ELSE IF i = 1 THEN {100, 1000} ELSE {100} }
      [] OTHER -> Outcomes

\* The resolver key every query of this call is rate limited under
resolver_id == ResolverId(nameserver, resolver_type)

\* The record type a task hands to AsyncDNSResolver.query
TaskRecordType ==
    IF op \in {"dns_bulk_query", "dns_query", "dns_propagation_check",
                "dns_response_analysis"}
    THEN Upper(record_type)
    ELSE IF op \in ReverseOps THEN <<"P","T","R">>
    ELSE record_type

\* The record type task i hands to AsyncDNSResolver.query
RecordTypeOf(i) ==
    IF op = "dns_wildcard_check" THEN Inputs[i][2]
    ELSE IF op = "dns_query_all" THEN Inputs[i]
    ELSE TaskRecordType

\* Elapsed wall-clock times (milliseconds) a finished call may have measured
ElapsedMs == {7}

--------------------------------------------------------------------------
(* Result entries and reports *)

NoResult ==
    [keys |-> {}, target |-> "", records |-> <<>>, error |-> NoError, success |-> FALSE]

\* The keys of the dict a task (or a single operation) builds when its
\* query succeeded: query_single_domain, reverse_lookup_single_ip,
\* format_dns_response, dns_reverse_lookup
SuccessKeys ==
    CASE op = "dns_bulk_query" ->
             {"domain", "record_type", "records", "record_count", "query_time_seconds"}
      [] op = "dns_query" ->
             {"domain", "record_type", "nameserver", "query_time_seconds",
              "records", "record_count"}
      [] op \in ReverseOps ->
             {"ip", "reverse_domain", "nameserver", "query_time_seconds",
              "hostnames", "hostname_count"}
      [] op = "dns_propagation_check" ->
             {"success", "records", "record_count", "query_time_seconds", "resolver_ip"}
      [] op = "dns_wildcard_check" ->
             {"test_domain", "record_type", "has_wildcard", "records", "record_count",
              "query_time_seconds"}
      [] op = "dns_query_all" -> {"record_type", "records"}
      [] op = "dns_response_analysis" -> {"response_time"}
      [] OTHER -> {"records"}

\* The keys of the dict built when the query raised
ErrorKeys ==
    CASE op = "dns_bulk_query" ->
             {"domain", "record_type", "query_time_seconds", "error"}
      [] op = "dns_query" ->
             {"domain", "record_type", "nameserver", "query_time_seconds", "error"}
      [] op \in ReverseOps ->
             {"ip", "reverse_domain", "nameserver", "query_time_seconds", "error"}
      [] op = "dns_propagation_check" ->
             {"success", "error", "query_time_seconds", "resolver_ip"}
      [] op = "dns_wildcard_check" ->
             {"test_domain", "record_type", "has_wildcard", "query_time_seconds", "error"}
      [] op = "dns_query_all" -> {"record_type", "records", "error"}
      [] op = "dns_response_analysis" -> {"iteration", "query_time_seconds", "error"}
      [] OTHER -> {"error"}

SuccessEntry(target, records) ==
    [keys |-> SuccessKeys, target |-> target, records |-> records, error |-> NoError,
     success |-> TRUE]

\* A plausible slip: a failed query reported like an empty answer
ErrorEntrySwallowed(target, e) == SuccessEntry(target, <<>>)

ErrorEntry(target, e) ==
    [keys |-> ErrorKeys, target |-> target, records |-> <<>>,
     error |-> format_error_response(e), success |-> FALSE]

\* The dict built for an ip that dns.reversename.from_address rejects
InvalidIpEntry(ip) ==
    [keys |-> IF op = "dns_bulk_reverse_lookup"
              THEN {"ip", "nameserver", "query_time_seconds", "error"}
              ELSE {"ip", "nameserver", "error"},
     target |-> ip, records |-> <<>>, error |-> format_error_response(InvalidAddress),
     success |-> FALSE]

NoReport ==
    [kind |-> "none", count |-> 0, successful_queries |-> 0, failed_queries |-> 0,
     total_query_time_ms |-> 0, average_query_time_ms |-> 0, results |-> <<>>,
     exc |-> NoError]

\* The literal dict both bulk operations return for an empty list
EmptyReport ==
    [kind |-> "report", count |-> 0, successful_queries |-> 0, failed_queries |-> 0,
     total_query_time_ms |-> 0, average_query_time_ms |-> 0, results |-> <<>>,
     exc |-> NoError]

\* round(total / n, 3) in milliseconds
RoundDiv(total, n) == (2 * total + n) \div (2 * n)

\* A plausible slip: the results collected as the tasks complete
GatherInCompletionOrder == [i \in 1..Len(completed) |-> results[completed[i]]]

\* asyncio.gather: the results in the order of the tasks handed to it
GatherResults == [i \in 1..Len(Inputs) |-> results[i]]

\* format_bulk_response, and the return of dns_bulk_reverse_lookup
BulkReport(processed_results, total_ms) ==
    LET successful == Cardinality({i \in DOMAIN processed_results :
                                     "error" \notin processed_results[i].keys})
    IN [kind |-> "report", count |-> Len(Inputs),
        successful_queries |-> successful,
        failed_queries |-> Len(processed_results) - successful,
        total_query_time_ms |-> total_ms,
        average_query_time_ms |->
            IF Len(Inputs) > 0 THEN RoundDiv(total_ms, Len(Inputs)) ELSE 0,
        results |-> processed_results, exc |-> NoError]

Raised(e) == [NoReport EXCEPT !.kind = "exception", !.exc = [error |-> "raised", type |-> e.type, details |-> e.msg]]

--------------------------------------------------------------------------
(* Initial states: one call, its arguments drawn from the input sets; the  *)
(* process-wide rate limiter may already hold throttlers of earlier calls. *)

\* A plausible slip: the per-second limit taken for a per-minute one
NewThrottlerPerMinute(rl) ==
    [rate_limit |-> rl \div 60, period |-> TicksPerPeriod, _task_logs |-> <<>>]

\* Throttler(rate_limit=self.rate_limit, period=1.0)
NewThrottler(rl) == [rate_limit |-> rl, period |-> TicksPerPeriod, _task_logs |-> <<>>]

\* The limiter as constructed, or holding the throttler of an earlier call
\* under the system key with one acquisition logged
InitThrottlers ==
    { [throttlers |-> <<>>, heap |-> <<>>],
      [throttlers |-> [k \in {<<"system">>} |-> 1],
       heap |-> << [NewThrottler(GlobalRateLimit) EXCEPT !._task_logs = <<0>>] >>] }

\* No task has started and nothing is returned
InitTasks ==
    /\ error = NoException
    /\ context = <<>>
    /\ timeout = DefaultTimeout
    /\ raw_record = NoRecord
    /\ opState = "called"
    /\ actual_workers = 0
    /\ semaphore = [created |-> FALSE, value |-> 0]
    /\ pc = [i \in Tasks |-> "created"]
    /\ results = [i \in Tasks |-> NoResult]
    /\ completed = <<>>
    /\ resolvers_created = 0
    /\ acq = [i \in Tasks |-> <<>>]
    /\ since = [i \in Tasks |-> -1]
    /\ issued = [i \in Tasks |-> 0]
    /\ outcome = [i \in Tasks |-> "pending"]
    /\ report = NoReport

\* The arguments of the analysis tools, for a call of another operation
NoAnalysisArgs ==
    /\ resolvers = [none |-> TRUE, items |-> <<>>]
    /\ test_count = {}
    /\ iterations = {}
    /\ random_labels = <<>>

\* The process-wide limiter dns_rate_limiter is in use
InitGlobalLimiter ==
    /\ rate_limit = GlobalRateLimit
    /\ keys = <<>>
    /\ \E l \in InitThrottlers : _throttlers = l.throttlers /\ heap = l.heap

\* A call of a tool
InitCommon ==
    /\ NoAnalysisArgs
    /\ InitGlobalLimiter
    /\ InitTasks

InitBulkQuery ==
    /\ op = "dns_bulk_query"
    /\ domains \in SeqsUpTo(Domains, MaxDomains)
    /\ ips = <<>>
    /\ record_type \in BulkRecordTypeInputs
    /\ nameserver \in Nameservers
    /\ resolver_type \in BulkResolverTypes
    /\ max_workers \in MaxWorkersInputs
    /\ InitCommon

InitBulkReverse ==
    /\ op = "dns_bulk_reverse_lookup"
    /\ domains = <<>>
    /\ ips \in SeqsUpTo(Ips, MaxDomains)
    /\ record_type = <<"P","T","R">>
    /\ nameserver \in Nameservers
    /\ resolver_type \in BulkResolverTypes
    /\ max_workers \in MaxWorkersInputs
    /\ InitCommon

InitQuery ==
    /\ op = "dns_query"
    /\ domains \in [1..1 -> Domains]
    /\ ips = <<>>
    /\ record_type \in RecordTypeInputs
    /\ nameserver \in Nameservers
    /\ resolver_type \in ResolverTypes
    /\ max_workers = DefaultMaxWorkers
    /\ InitCommon

InitReverse ==
    /\ op = "dns_reverse_lookup"
    /\ domains = <<>>
    /\ ips \in [1..1 -> Ips]
    /\ record_type = <<"P","T","R">>
    /\ nameserver \in Nameservers
    /\ resolver_type \in ResolverTypes
    /\ max_workers = DefaultMaxWorkers
    /\ InitCommon

InitResolverQuery ==
    /\ op = "resolver_query"
    /\ domains \in [1..1 -> Domains]
    /\ ips = <<>>
    /\ record_type \in RecordTypeInputs \cup SUPPORTED_RECORD_TYPES
    /\ nameserver \in Nameservers
    /\ resolver_type \in ResolverTypes
    /\ max_workers = DefaultMaxWorkers
    /\ InitCommon

Init ==
    \/ InitBulkQuery
    \/ InitBulkReverse
    \/ InitQuery
    \/ InitReverse
    \/ InitResolverQuery


--------------------------------------------------------------------------
(* The main coroutine up to its gather *)

\* A plausible slip: the guard for the empty list left out
EarlyReturnMissing(list) == FALSE

\* `if not domains:` / `if not ips:`
EarlyReturn(list) == list = <<>>

\* `ensure_int(max_workers) or 10`
RequestedWorkers(v) == IF ensure_int(v) = 0 THEN DefaultMaxWorkers ELSE ensure_int(v)

\* `actual_workers = min(max_workers, len(domains))`
ActualWorkers(v, n) == Min(RequestedWorkers(v), n)

\* dns_bulk_query and dns_bulk_reverse_lookup from the call to the gather:
\* the empty-list return, the worker count, the resolver of dns_bulk_query,
\* the semaphore (whose constructor rejects a negative value) and the tasks.
BulkCall ==
    /\ op \in BulkOps
    /\ opState = "called"
    /\ IF EarlyReturn(Inputs)
       THEN /\ report' = EmptyReport
            /\ opState' = "returned"
            /\ UNCHANGED <<actual_workers, semaphore, resolvers_created>>
       ELSE /\ actual_workers' = ActualWorkers(max_workers, Len(Inputs))
            /\ resolvers_created' =
                   IF op = "dns_bulk_query" THEN resolvers_created + 1
                   ELSE resolvers_created
            /\ IF actual_workers' < 0
               THEN /\ report' = Raised(SemaphoreValueError)
                    /\ opState' = "raised"
                    /\ UNCHANGED semaphore
               ELSE /\ semaphore' = [created |-> TRUE, value |-> actual_workers']
                    /\ opState' = "gathering"
                    /\ UNCHANGED report
    /\ UNCHANGED <<inputs, pc, results, completed, _throttlers, heap, acq, since, issued, outcome>>

\* A plausible slip: the query starts without the rate limiter
QueryEntryWithoutAcquire == "acquired"

\* The position of a call that has just entered AsyncDNSResolver.query:
\* its first statement awaits the rate limiter.
QueryEntryPc == "rl_wait"

\* A plausible slip: the resolver created before the ip is parsed
SingleCallResolverFirst ==
    /\ op \in SingleOps
    /\ opState = "called"
    /\ resolvers_created' = resolvers_created + 1
    /\ IF op = "dns_reverse_lookup" /\ ips[1] \notin ValidIps
       THEN /\ report' = [NoReport EXCEPT !.kind = "report", !.count = 1,
                             !.failed_queries = 1,
                             !.results = <<InvalidIpEntry(ips[1])>>]
            /\ opState' = "returned"
            /\ UNCHANGED pc
       ELSE /\ pc' = [i \in Tasks |-> QueryEntryPc]
            /\ opState' = "gathering"
            /\ UNCHANGED report
    /\ UNCHANGED <<inputs, actual_workers, semaphore, results, completed,
                   _throttlers, heap, acq, since, issued, outcome>>

\* dns_query: the resolver is created and the one query awaited.
\* dns_reverse_lookup: from_address first; an invalid ip returns the error
\* dict at once, before any resolver exists.
SingleCall ==
    /\ op \in SingleOps
    /\ opState = "called"
    /\ IF op = "dns_reverse_lookup" /\ ips[1] \notin ValidIps
       THEN /\ report' = [NoReport EXCEPT !.kind = "report", !.count = 1,
                             !.failed_queries = 1,
                             !.results = <<InvalidIpEntry(ips[1])>>]
            /\ opState' = "returned"
            /\ UNCHANGED <<resolvers_created, pc>>
       ELSE /\ resolvers_created' = resolvers_created + 1
            /\ pc' = [i \in Tasks |-> QueryEntryPc]
            /\ opState' = "gathering"
            /\ UNCHANGED report
    /\ UNCHANGED <<inputs, actual_workers, semaphore, results, completed,
                   _throttlers, heap, acq, since, issued, outcome>>

\* A direct call of AsyncDNSResolver.query on a resolver of create_resolver
ResolverQueryCall ==
    /\ op = "resolver_query"
    /\ opState = "called"
    /\ resolvers_created' = resolvers_created + 1
    /\ pc' = [i \in Tasks |-> QueryEntryPc]
    /\ opState' = "gathering"
    /\ UNCHANGED <<inputs, actual_workers, semaphore, results, completed,
                   _throttlers, heap, acq, since, issued, outcome, report>>

--------------------------------------------------------------------------
(* The tasks *)

\* A plausible slip: an off-by-one in the permit test
SemaphoreFreeOffByOne(sem) == sem.value >= 0

\* asyncio.Semaphore.acquire does not block
SemaphoreFree(sem) == sem.value > 0

\* A plausible slip: the delay taken after the last iteration too
AfterQueryPcAlwaysSleeps(i) ==
    IF op = "dns_response_analysis" THEN "sleeping" ELSE "done"

\* Where task i stands once its query is over: an iteration of
\* dns_response_analysis other than the last goes on to
\* `await asyncio.sleep(config.default_bulk_delay)`
AfterQueryPc(i) ==
    IF op = "dns_response_analysis" /\ i < EffectiveIterations THEN "sleeping"
    ELSE "done"

\* A plausible slip: the permit released on the success path only
CompleteKeepsPermitOnError(i, entry, sem) ==
    /\ results' = [results EXCEPT ![i] = entry]
    /\ pc' = [pc EXCEPT ![i] = "done"]
    /\ completed' = Append(completed, i)
    /\ semaphore' = IF sem.created /\ "error" \notin entry.keys
                    THEN [sem EXCEPT !.value = @ + 1] ELSE sem

\* A task ends: its gather slot is filled and, under `async with semaphore`,
\* its permit goes back.
Complete(i, entry, sem) ==
    /\ results' = [results EXCEPT ![i] = entry]
    /\ pc' = [pc EXCEPT ![i] = AfterQueryPc(i)]
    /\ completed' = Append(completed, i)
    /\ semaphore' = IF sem.created THEN [sem EXCEPT !.value = @ + 1] ELSE sem

\* A plausible slip: the ip not parsed before the resolver is built and
\* queried
EnterWithoutIpCheck(i) ==
    /\ op \in SemaphoreOps
    /\ opState = "gathering"
    /\ pc[i] = "created"
    /\ SemaphoreFree(semaphore)
    /\ semaphore' = [semaphore EXCEPT !.value = @ - 1]
    /\ pc' = [pc EXCEPT ![i] = QueryEntryPc]
    /\ resolvers_created' =
           IF op \in ReverseOps THEN resolvers_created + 1 ELSE resolvers_created
    /\ UNCHANGED <<results, completed, outcome>>
    /\ UNCHANGED <<inputs, opState, actual_workers, _throttlers, heap, acq, since, issued, report>>

\* rate_limited_query / rate_limited_reverse_lookup: take a permit and run to
\* the first await of the body.  For a reverse lookup that is from_address
\* (an invalid ip ends the task with an error entry) and create_resolver.
Enter(i) ==
    /\ op \in SemaphoreOps
    /\ opState = "gathering"
    /\ pc[i] = "created"
    /\ SemaphoreFree(semaphore)
    /\ IF op \in ReverseOps /\ Inputs[i] \notin ValidIps
       THEN /\ Complete(i, InvalidIpEntry(Inputs[i]),
                        [semaphore EXCEPT !.value = @ - 1])
            /\ outcome' = [outcome EXCEPT ![i] = "error"]
            /\ UNCHANGED resolvers_created
       ELSE /\ semaphore' = [semaphore EXCEPT !.value = @ - 1]
            /\ pc' = [pc EXCEPT ![i] = QueryEntryPc]
            /\ resolvers_created' =
                   IF op \in ReverseOps THEN resolvers_created + 1
                   ELSE resolvers_created
            /\ UNCHANGED <<results, completed, outcome>>
    /\ UNCHANGED <<inputs, opState, actual_workers, _throttlers, heap, acq, since, issued, report>>

\* Throttler.flush: the log entries older than the period are dropped.  The
\* log holds the age in ticks of each acquisition, oldest first.
flush(t) == [t EXCEPT !._task_logs = SelectSeq(@, LAMBDA age : age <= t.period)]

\* Throttler.acquire does not wait: fewer than rate_limit entries are logged
Admits(t) == Len(flush(t)._task_logs) < t.rate_limit

\* Throttler.acquire, once admitted: the acquisition is logged
ThrottlerAcquire(t) == [flush(t) EXCEPT !._task_logs = Append(@, 0)]

\* A plausible slip: one throttler serves every key
get_throttler_shared(throttlers, hp, key) ==
    IF hp = <<>>
    THEN [throttlers |-> [k \in {key} |-> 1],
          heap |-> <<NewThrottler(rate_limit)>>, throttler |-> 1]
    ELSE [throttlers |-> [k \in DOMAIN throttlers \cup {key} |-> 1],
          heap |-> hp, throttler |-> 1]

\* A plausible slip: the membership test left out, a throttler built per call
get_throttler_always_new(throttlers, hp, key) ==
    [throttlers |-> [k \in DOMAIN throttlers \cup {key} |->
                        IF k = key THEN Len(hp) + 1 ELSE throttlers[k]],
     heap |-> Append(hp, NewThrottler(rate_limit)),
     throttler |-> Len(hp) + 1]

\* DNSRateLimiter.get_throttler: the dict and the heap after the call, and
\* the throttler returned
get_throttler(throttlers, hp, key) ==
    IF key \notin DOMAIN throttlers
    THEN [throttlers |-> [k \in DOMAIN throttlers \cup {key} |->
                             IF k = key THEN Len(hp) + 1 ELSE throttlers[k]],
          heap |-> Append(hp, NewThrottler(rate_limit)),
          throttler |-> Len(hp) + 1]
    ELSE [throttlers |-> throttlers, heap |-> hp, throttler |-> throttlers[key]]

\* DNSRateLimiter.acquire returns without further waiting
CanAcquire(throttlers, hp, key) ==
    LET g == get_throttler(throttlers, hp, key)
    IN Admits(g.heap[g.throttler])

\* DNSRateLimiter.acquire: get_throttler followed by `async with throttler`
RateLimiterAcquire(throttlers, hp, key) ==
    LET g == get_throttler(throttlers, hp, key)
    IN [throttlers |-> g.throttlers,
        heap |-> [g.heap EXCEPT ![g.throttler] = ThrottlerAcquire(@)]]

\* The key AsyncDNSResolver.query acquires under
RateLimitKey == resolver_id

\* The key task i acquires under
TaskKey(i) ==
    IF op \in LimiterOps THEN keys[i]
    ELSE IF op = "dns_propagation_check" THEN ResolverId(Inputs[i][2], "custom")
    ELSE RateLimitKey

\* A plausible slip: the record type validated before the rate limiter is
\* awaited
AcquireAfterValidation(i) ==
    /\ opState = "gathering"
    /\ pc[i] = "rl_wait"
    /\ IF op \in LimiterOps \/ Upper(RecordTypeOf(i)) \in query_type_map
       THEN /\ CanAcquire(_throttlers, heap, TaskKey(i))
            /\ LET r == RateLimiterAcquire(_throttlers, heap, TaskKey(i))
               IN /\ _throttlers' = r.throttlers
                  /\ heap' = r.heap
            /\ acq' = [acq EXCEPT ![i] = Append(@, TaskKey(i))]
            /\ since' = [since EXCEPT ![i] = 0]
            /\ pc' = [pc EXCEPT ![i] = IF op \in LimiterOps THEN "done" ELSE "acquired"]
            /\ UNCHANGED <<results, completed, semaphore, outcome>>
       ELSE /\ Complete(i, ErrorEntry(Inputs[i], UnsupportedRecordType(RecordTypeOf(i))),
                        semaphore)
            /\ outcome' = [outcome EXCEPT ![i] = "error"]
            /\ UNCHANGED <<_throttlers, heap, acq, since>>
    /\ UNCHANGED <<inputs, opState, actual_workers, resolvers_created, issued, report>>

\* AsyncDNSResolver.query: `await dns_rate_limiter.acquire(self.resolver_id)`,
\* or a direct call of acquire.  The step is taken once the throttler admits
\* the caller; until then the caller sleeps and retries.
Acquire(i) ==
    /\ opState = "gathering"
    /\ pc[i] = "rl_wait"
    /\ CanAcquire(_throttlers, heap, TaskKey(i))
    /\ LET r == RateLimiterAcquire(_throttlers, heap, TaskKey(i))
       IN /\ _throttlers' = r.throttlers
          /\ heap' = r.heap
    /\ acq' = [acq EXCEPT ![i] = Append(@, TaskKey(i))]
    /\ since' = [since EXCEPT ![i] = 0]
    /\ pc' = [pc EXCEPT ![i] = IF op \in LimiterOps THEN "done" ELSE "acquired"]
    /\ UNCHANGED <<inputs, opState, actual_workers, semaphore, results, completed,
                   resolvers_created, issued, outcome, report>>

\* The age of an acquisition one tick later; beyond the period it stays
Older(age) == IF age < 0 THEN age ELSE Min(age + 1, TicksPerPeriod + 1)

\* The monotonic clock advances by one tick
Tick ==
    /\ heap' = [a \in DOMAIN heap |->
                  LET logs == heap[a]._task_logs
                  IN [heap[a] EXCEPT !._task_logs =
                                         [n \in DOMAIN logs |-> Older(logs[n])]]]
    /\ since' = [i \in Tasks |-> Older(since[i])]
    /\ UNCHANGED <<inputs, opState, actual_workers, semaphore, pc, results,
                   completed, resolvers_created, _throttlers, acq, issued,
                   outcome, report>>

\* A plausible slip: the validation left out
IsSupportedAlways(rt) == TRUE

\* `query_type_map.get(record_type.upper())` finds a type
IsSupported(rt) == Upper(rt) \in query_type_map

\* AsyncDNSResolver.query after the acquisition: an unsupported type raises
\* ValueError, which the task's except clause turns into an error entry;
\* otherwise the underlying resolution is issued.
Query(i) ==
    /\ opState = "gathering"
    /\ pc[i] = "acquired"
    /\ IF IsSupported(RecordTypeOf(i))
       THEN /\ issued' = [issued EXCEPT ![i] = @ + 1]
            /\ pc' = [pc EXCEPT ![i] = "resolving"]
            /\ UNCHANGED <<results, completed, semaphore, outcome>>
       ELSE /\ Complete(i, ErrorEntry(Inputs[i], UnsupportedRecordType(RecordTypeOf(i))),
                        semaphore)
            /\ outcome' = [outcome EXCEPT ![i] = "error"]
            /\ UNCHANGED issued
    /\ UNCHANGED <<inputs, opState, actual_workers, resolvers_created,
                   _throttlers, heap, acq, since, report>>

\* The underlying resolution returns records or raises; the task builds its
\* entry and ends.
\* A plausible slip: a failed query is tried once more
RespondWithRetry(i, out) ==
    /\ opState = "gathering"
    /\ pc[i] = "resolving"
    /\ IF out.ok
       THEN /\ Complete(i,
                        IF op = "dns_response_analysis"
                        THEN SuccessEntry(Inputs[i], out.records)
                                 @@ [response_time |-> out.time]
                        ELSE SuccessEntry(Inputs[i], out.records),
                        semaphore)
            /\ outcome' = [outcome EXCEPT ![i] = "ok"]
       ELSE IF Len(acq[i]) < 2
       THEN /\ pc' = [pc EXCEPT ![i] = QueryEntryPc]
            /\ UNCHANGED <<results, completed, semaphore, outcome>>
       ELSE /\ Complete(i, ErrorEntry(Inputs[i], out.exc), semaphore)
            /\ outcome' = [outcome EXCEPT ![i] = "error"]
    /\ UNCHANGED <<inputs, opState, actual_workers, resolvers_created,
                   _throttlers, heap, acq, since, issued, report>>

\* The underlying resolution of task i ends with outcome out, and the task
\* builds its result from it
RespondWith(i, out) ==
    /\ opState = "gathering"
    /\ pc[i] = "resolving"
    /\ IF out.ok
       THEN /\ Complete(i,
                        IF op = "dns_response_analysis"
                        THEN SuccessEntry(Inputs[i], out.records)
                                 @@ [response_time |-> out.time]
                        ELSE SuccessEntry(Inputs[i], out.records),
                        semaphore)
            /\ outcome' = [outcome EXCEPT ![i] = "ok"]
       ELSE /\ Complete(i, ErrorEntry(Inputs[i], out.exc), semaphore)
            /\ outcome' = [outcome EXCEPT ![i] = "error"]
    /\ UNCHANGED <<inputs, opState, actual_workers, resolvers_created,
                   _throttlers, heap, acq, since, issued, report>>

Respond(i) == \E out \in OutcomesOf(i) : RespondWith(i, out)

--------------------------------------------------------------------------
(* The main coroutine after the gather *)

AllDone == \A i \in Tasks : pc[i] = "done"

\* The loop over the gathered results and the report
BulkFinish ==
    /\ op \in BulkOps
    /\ opState = "gathering"
    /\ AllDone
    /\ \E total_ms \in ElapsedMs : report' = BulkReport(GatherResults, total_ms)
    /\ opState' = "returned"
    /\ UNCHANGED <<inputs, actual_workers, semaphore, pc, results, completed,
                   resolvers_created, _throttlers, heap, acq, since, issued, outcome>>

\* format_dns_response, and the dict dns_reverse_lookup returns: the entry of
\* the one query is the report
SingleFinish ==
    /\ op \in SingleOps
    /\ opState = "gathering"
    /\ AllDone
    /\ report' = [NoReport EXCEPT !.kind = "report", !.count = 1,
                     !.successful_queries = IF "error" \in results[1].keys THEN 0 ELSE 1,
                     !.failed_queries = IF "error" \in results[1].keys THEN 1 ELSE 0,
                     !.results = <<results[1]>>]
    /\ opState' = "returned"
    /\ UNCHANGED <<inputs, actual_workers, semaphore, pc, results, completed,
                   resolvers_created, _throttlers, heap, acq, since, issued, outcome>>

\* The direct call returns the records or lets the exception through
ResolverQueryFinish ==
    /\ op = "resolver_query"
    /\ opState = "gathering"
    /\ AllDone
    /\ IF outcome[1] = "ok"
       THEN /\ report' = [NoReport EXCEPT !.kind = "records", !.results = results[1].records]
            /\ opState' = "returned"
       ELSE /\ report' = [NoReport EXCEPT !.kind = "exception", !.exc = results[1].error]
            /\ opState' = "raised"
    /\ UNCHANGED <<inputs, actual_workers, semaphore, pc, results, completed,
                   resolvers_created, _throttlers, heap, acq, since, issued, outcome>>

Next ==
    \/ BulkCall
    \/ SingleCall
    \/ ResolverQueryCall
    \/ \E i \in Tasks : Enter(i)
    \/ \E i \in Tasks : Acquire(i)
    \/ \E i \in Tasks : Query(i)
    \/ \E i \in Tasks : Respond(i)
    \/ BulkFinish
    \/ SingleFinish
    \/ ResolverQueryFinish

Spec == Init /\ [][Next]_vars


--------------------------------------------------------------------------
(* A second specification for lists longer than the safety ceiling: the    *)
(* same actions under the schedule of an event loop that runs each task,   *)
(* in task order, up to its wait for the network, and of a resolver that   *)
(* answers the oldest query first and successfully.  It keeps a run over   *)
(* max_concurrent_workers + 1 domains small.                               *)

CeilingDomains == max_concurrent_workers + 1

InitCeiling ==
    /\ op = "dns_bulk_query"
    /\ domains = [i \in 1..CeilingDomains |-> "a.com"]
    /\ ips = <<>>
    /\ record_type = <<"A">>
    /\ nameserver = "None"
    /\ resolver_type = "system"
    /\ max_workers \in {max_concurrent_workers + 1, max_concurrent_workers + 10}
    /\ InitCommon

\* Every task before i has reached its wait for the network
InOrder(i) == \A j \in Tasks : j < i => pc[j] \in {"resolving", "done"}

\* Every task before i is done
Oldest(i) == \A j \in Tasks : j < i => pc[j] = "done"

\* Task i sleeps in Throttler.acquire: the log of its key is full
Blocked(i) ==
    /\ pc[i] = "rl_wait"
    /\ ~CanAcquire(_throttlers, heap, TaskKey(i))

NextCeiling ==
    \/ BulkCall
    \/ (\E i \in Tasks : Blocked(i)) /\ Tick
    \/ \E i \in Tasks : InOrder(i) /\ Enter(i)
    \/ \E i \in Tasks : Acquire(i)
    \/ \E i \in Tasks : Query(i)
    \/ \E i \in Tasks : Oldest(i) /\ RespondWith(i, OkOutcome)
    \/ BulkFinish

SpecCeiling == InitCeiling /\ [][NextCeiling]_vars

--------------------------------------------------------------------------
(* The dispatch of dns_bulk_query under a fair event loop: a task that can   *)
(* run is run, and every underlying resolution eventually returns or fails. *)

InitDispatch ==
    /\ InitBulkQuery
    /\ \A k \in DOMAIN domains : domains[k] = "a.com"
    /\ nameserver = "None"
    /\ _throttlers = <<>>

NextDispatch ==
    \/ BulkCall
    \/ \E i \in Tasks : Enter(i)
    \/ \E i \in Tasks : Acquire(i)
    \/ \E i \in Tasks : Query(i)
    \/ \E i \in Tasks : Respond(i)
    \/ BulkFinish

SpecDispatch ==
    /\ InitDispatch
    /\ [][NextDispatch]_vars
    /\ WF_vars(BulkCall)
    /\ WF_vars(BulkFinish)
    /\ \A i \in 1..MaxDomains :
           /\ WF_vars(i \in Tasks /\ Enter(i))
           /\ WF_vars(i \in Tasks /\ Acquire(i))
           /\ WF_vars(i \in Tasks /\ Query(i))
           /\ WF_vars(i \in Tasks /\ Respond(i))

--------------------------------------------------------------------------
(* A further specification: a DNSRateLimiter of a small rate_limit, as         *)
(* constructed, with concurrent direct callers of acquire and a clock.      *)
(* A caller that is not admitted retries until it is; the clock keeps       *)
(* advancing.                                                               *)

LimiterKeys == { <<"google">>, <<"custom", "1.1.1.1">> }

InitLimiter ==
    /\ op = "acquire"
    /\ domains = <<>>
    /\ ips = <<>>
    /\ record_type = <<"A">>
    /\ nameserver = "None"
    /\ resolver_type = "system"
    /\ max_workers = DefaultMaxWorkers
    /\ NoAnalysisArgs
    /\ rate_limit \in {1, 2}
    /\ keys \in SeqsUpTo(LimiterKeys, MaxAcquirers)
    /\ _throttlers = <<>>
    /\ heap = <<>>
    /\ InitTasks

\* The callers are started together
AcquireCall ==
    /\ op \in LimiterOps
    /\ opState = "called"
    /\ pc' = [i \in Tasks |-> "rl_wait"]
    /\ opState' = "gathering"
    /\ UNCHANGED <<inputs, actual_workers, semaphore, results, completed,
                   resolvers_created, _throttlers, heap, acq, since, issued,
                   outcome, report>>

\* Every caller has returned
AcquireFinish ==
    /\ op \in LimiterOps
    /\ opState = "gathering"
    /\ AllDone
    /\ opState' = "returned"
    /\ UNCHANGED <<inputs, actual_workers, semaphore, pc, results, completed,
                   resolvers_created, _throttlers, heap, acq, since, issued,
                   outcome, report>>

NextLimiter ==
    \/ AcquireCall
    \/ \E i \in Tasks : Acquire(i)
    \/ Tick
    \/ AcquireFinish

SpecLimiter ==
    /\ InitLimiter
    /\ [][NextLimiter]_vars
    /\ WF_vars(Tick)
    /\ \A i \in 1..MaxAcquirers : WF_vars(i \in Tasks /\ Acquire(i))

--------------------------------------------------------------------------
(* dns_propagation_check *)

\* A plausible slip: the records grouped as returned, unsorted
record_tuple_unsorted(records) == records

\* `tuple(sorted(result["records"]))`
record_tuple(records) == sorted(records)

\* A plausible slip: an empty answer not counted as a success
successful_results_nonempty(res) ==
    {i \in DOMAIN res : res[i].success /\ res[i].records # <<>>}

\* The resolvers whose entry has success True, and the others
successful_results(res) == {i \in DOMAIN res : res[i].success}

failed_results(res) == {i \in DOMAIN res : ~res[i].success}

\* The keys of response_groups: the distinct record tuples of the successes
response_groups(res) ==
    {record_tuple(res[i].records) : i \in successful_results(res)}

\* A plausible slip: `<` for `<=`
is_consistent_strict(groups) == Cardinality(groups) < 1

\* `is_consistent = len(response_groups) <= 1`
is_consistent(groups) == Cardinality(groups) <= 1

\* A plausible slip: the failures left out of the trust level
trust_level_ignoring_failures(consistent, failed) ==
    IF consistent THEN "HIGH" ELSE "LOW"

\* A plausible slip: a check without any success rated like an inconsistent one
trust_level_low_without_success(consistent, failed) ==
    IF consistent /\ failed = 0 THEN "HIGH"
    ELSE IF consistent /\ failed < Len(Inputs) THEN "MEDIUM"
    ELSE "LOW"

\* osint_analysis["trust_level"]
trust_level(consistent, failed) ==
    IF consistent /\ failed = 0 THEN "HIGH"
    ELSE IF consistent THEN "MEDIUM"
    ELSE "LOW"

\* The dict dns_propagation_check returns
PropagationReport(res) ==
    LET groups == response_groups(res)
        failed == Cardinality(failed_results(res))
    IN [kind |-> "report", exc |-> NoError,
        total_resolvers_queried |-> Len(Inputs),
        successful_queries |-> Cardinality(successful_results(res)),
        failed_queries |-> failed,
        is_consistent |-> is_consistent(groups),
        unique_response_count |-> Cardinality(groups),
        consistency_status |->
            IF is_consistent(groups) THEN "CONSISTENT" ELSE "INCONSISTENT",
        trust_level |-> trust_level(is_consistent(groups), failed),
        response_groups |->
            {[records |-> g,
              resolvers |-> {i \in successful_results(res) :
                                record_tuple(res[i].records) = g},
              resolver_count |->
                  Cardinality({i \in successful_results(res) :
                                  record_tuple(res[i].records) = g})] : g \in groups},
        results |-> res]

InitPropagation ==
    /\ op = "dns_propagation_check"
    /\ domains \in [1..1 -> {"a.com"}]
    /\ ips = <<>>
    /\ record_type \in BulkRecordTypeInputs
    /\ nameserver = "None"
    /\ resolver_type = "system"
    /\ max_workers = DefaultMaxWorkers
    /\ resolvers \in ResolversInputs
    /\ test_count = {}
    /\ iterations = {}
    /\ random_labels = <<>>
    /\ InitGlobalLimiter
    /\ InitTasks

\* dns_propagation_check up to its gather: every query_resolver task builds
\* its own resolver and enters AsyncDNSResolver.query
PropagationCall ==
    /\ op = "dns_propagation_check"
    /\ opState = "called"
    /\ resolvers_created' = resolvers_created + Len(Inputs)
    /\ pc' = [i \in Tasks |-> QueryEntryPc]
    /\ opState' = "gathering"
    /\ UNCHANGED <<inputs, actual_workers, semaphore, results, completed,
                   _throttlers, heap, acq, since, issued, outcome, report>>

\* The analysis after the gather and the returned dict
PropagationFinish ==
    /\ op = "dns_propagation_check"
    /\ opState = "gathering"
    /\ AllDone
    /\ report' = PropagationReport(GatherResults)
    /\ opState' = "returned"
    /\ UNCHANGED <<inputs, actual_workers, semaphore, pc, results, completed,
                   resolvers_created, _throttlers, heap, acq, since, issued, outcome>>

(* dns_wildcard_check *)

WildcardRecordTypes == { <<"A">>, <<"C","N","A","M","E">> }

\* wildcard_detected[rt] after the loop over the gathered results
wildcard_detected(res, rt) ==
    \E i \in DOMAIN res : res[i].success /\ res[i].target[2] = rt

\* wildcard_records[rt] after the loop over the gathered results
wildcard_records(res, rt) ==
    UNION { { res[i].records[k] : k \in DOMAIN res[i].records } :
            i \in { j \in DOMAIN res : res[j].success /\ res[j].target[2] = rt } }

has_any_wildcard(res) == \E rt \in WildcardRecordTypes : wildcard_detected(res, rt)

has_cdn_pattern(res) ==
    \E rt \in WildcardRecordTypes :
        \E record \in wildcard_records(res, rt) : is_cdn_related(record)

\* A plausible slip: any wildcard target at all raises the level
risk_level_any_target(res) ==
    IF ~ has_any_wildcard(res) THEN "LOW"
    ELSE LET raised ==
                 IF \E rt \in WildcardRecordTypes :
                        Cardinality(wildcard_records(res, rt)) > 0
                 THEN "HIGH" ELSE "MEDIUM"
         IN  IF has_cdn_pattern(res) /\ raised = "MEDIUM" THEN "LOW" ELSE raised

\* osint_insights.risk_level
risk_level(res) ==
    IF ~ has_any_wildcard(res) THEN "LOW"
    ELSE LET raised ==
                 IF \E rt \in WildcardRecordTypes :
                        Cardinality(wildcard_records(res, rt)) > 1
                 THEN "HIGH" ELSE "MEDIUM"
         IN  IF has_cdn_pattern(res) /\ raised = "MEDIUM" THEN "LOW" ELSE raised

\* The dict dns_wildcard_check returns
WildcardReport(res) ==
    [kind |-> "returned",
     exc |-> "none",
     test_subdomains |-> test_subdomains,
     test_count |-> EffectiveTestCount,
     has_wildcard |-> has_any_wildcard(res),
     \* unique_records is a list made from a set
     wildcard_analysis |->
         [rt \in WildcardRecordTypes |->
             IF wildcard_detected(res, rt)
             THEN [detected |-> TRUE,
                   unique_records |-> wildcard_records(res, rt),
                   record_count |-> Cardinality(wildcard_records(res, rt)),
                   single_target |-> Cardinality(wildcard_records(res, rt)) = 1,
                   multiple_targets |-> Cardinality(wildcard_records(res, rt)) > 1]
             ELSE [detected |-> FALSE,
                   unique_records |-> {},
                   record_count |-> 0,
                   single_target |-> FALSE,
                   multiple_targets |-> FALSE]],
     risk_level |-> risk_level(res),
     test_results |-> res,
     results |-> res]

InitWildcard ==
    /\ op = "dns_wildcard_check"
    /\ domains \in [1..1 -> {"a.com"}]
    /\ ips = <<>>
    /\ record_type = <<"A">>
    /\ nameserver = "None"
    /\ resolver_type = "system"
    /\ max_workers = DefaultMaxWorkers
    /\ resolvers = [none |-> TRUE, items |-> <<>>]
    /\ test_count \in { {} } \cup { {n} : n \in (-1)..MaxTestCount }
                          \cup { {max_wildcard_test_count + 1} }
    /\ iterations = {}
    \* the random subdomains: all different, or all the same
    /\ random_labels \in { [k \in 1..EffectiveTestCount |-> RandomLabel(k)],
                           [k \in 1..EffectiveTestCount |-> RandomLabel(1)] }
    /\ InitGlobalLimiter
    /\ InitTasks

\* dns_wildcard_check up to its gather: one resolver, the test subdomains,
\* and a test_subdomain task per subdomain and record type
WildcardCall ==
    /\ op = "dns_wildcard_check"
    /\ opState = "called"
    /\ resolvers_created' = resolvers_created + 1
    /\ pc' = [i \in Tasks |-> QueryEntryPc]
    /\ opState' = "gathering"
    /\ UNCHANGED <<inputs, actual_workers, semaphore, results, completed,
                   _throttlers, heap, acq, since, issued, outcome, report>>

\* The analysis after the gather and the returned dict
WildcardFinish ==
    /\ op = "dns_wildcard_check"
    /\ opState = "gathering"
    /\ AllDone
    /\ report' = WildcardReport(GatherResults)
    /\ opState' = "returned"
    /\ UNCHANGED <<inputs, actual_workers, semaphore, pc, results, completed,
                   resolvers_created, _throttlers, heap, acq, since, issued, outcome>>

(* dns_query_all *)

\* A plausible slip: the empty record lists kept
QueryAllRecordsWithEmpty(res) ==
    LET found == SelectSeq(res, LAMBDA e : e.success)
    IN  [k \in DOMAIN found |-> <<found[k].target, found[k].records>>]

\* The records dict as its items in insertion order: the record types that
\* answered with at least one record
QueryAllRecords(res) ==
    LET found == SelectSeq(res, LAMBDA e : e.success /\ e.records # <<>>)
    IN  [k \in DOMAIN found |-> <<found[k].target, found[k].records>>]

\* The errors dict as its items in insertion order
QueryAllErrors(res) ==
    LET failed == SelectSeq(res, LAMBDA e : ~ e.success)
    IN  [k \in DOMAIN failed |-> <<failed[k].target, failed[k].error>>]

RECURSIVE SumOfLens(_)
\* sum(len(record_list) for record_list in records.values())
SumOfLens(items) ==
    IF items = <<>> THEN 0 ELSE Len(Head(items)[2]) + SumOfLens(Tail(items))

\* The dict dns_query_all returns; has_errors tells whether it has the
\* key "errors"
QueryAllReport(res) ==
    [kind |-> "returned",
     exc |-> "none",
     records |-> QueryAllRecords(res),
     record_types_found |-> Len(QueryAllRecords(res)),
     total_records |-> SumOfLens(QueryAllRecords(res)),
     has_errors |-> QueryAllErrors(res) # <<>>,
     errors |-> QueryAllErrors(res),
     results |-> res]

InitQueryAll ==
    /\ op = "dns_query_all"
    /\ domains \in [1..1 -> {"a.com"}]
    /\ ips = <<>>
    /\ record_type = <<"A">>
    /\ nameserver = "None"
    /\ resolver_type = "system"
    /\ max_workers = DefaultMaxWorkers
    /\ NoAnalysisArgs
    /\ InitGlobalLimiter
    /\ InitTasks

\* dns_query_all up to its gather: one resolver, the semaphore and a
\* query_record_type task per record type
QueryAllCall ==
    /\ op = "dns_query_all"
    /\ opState = "called"
    /\ resolvers_created' = resolvers_created + 1
    /\ semaphore' = [created |-> TRUE, value |-> dns_query_all_concurrency]
    /\ opState' = "gathering"
    /\ UNCHANGED <<inputs, actual_workers, pc, results, completed,
                   _throttlers, heap, acq, since, issued, outcome, report>>

\* The processing of the gathered results and the returned dict
QueryAllFinish ==
    /\ op = "dns_query_all"
    /\ opState = "gathering"
    /\ AllDone
    /\ report' = QueryAllReport(GatherResults)
    /\ opState' = "returned"
    /\ UNCHANGED <<inputs, actual_workers, semaphore, pc, results, completed,
                   resolvers_created, _throttlers, heap, acq, since, issued, outcome>>

(* dns_response_analysis *)

RECURSIVE SumOf(_)
\* sum of a list of numbers, as in statistics.mean
SumOf(xs) == IF xs = <<>> THEN 0 ELSE Head(xs) + SumOf(Tail(xs))

RECURSIVE FloorSqrt(_, _, _)
\* The largest r in lo..hi with r * r <= x: the square root statistics.stdev
\* takes, cut to a whole number
FloorSqrt(x, lo, hi) ==
    IF lo >= hi THEN lo
    ELSE LET mid == (lo + hi + 1) \div 2
         IN  IF mid * mid <= x THEN FloorSqrt(x, mid, hi)
             ELSE FloorSqrt(x, lo, mid - 1)

\* config.performance_thresholds, in units of 0.0001 s
performance_thresholds ==
    [excellent |-> 1000, good |-> 3000, moderate |-> 5000, poor |-> 10000]

\* A plausible slip: the bucket bounds taken as inclusive
get_performance_rating_inclusive(avg_time) ==
    IF avg_time <= performance_thresholds.excellent THEN "EXCELLENT"
    ELSE IF avg_time <= performance_thresholds.good THEN "GOOD"
    ELSE IF avg_time <= performance_thresholds.moderate THEN "MODERATE"
    ELSE IF avg_time <= performance_thresholds.poor THEN "POOR"
    ELSE "VERY_POOR"

get_performance_rating(avg_time) ==
    IF avg_time < performance_thresholds.excellent THEN "EXCELLENT"
    ELSE IF avg_time < performance_thresholds.good THEN "GOOD"
    ELSE IF avg_time < performance_thresholds.moderate THEN "MODERATE"
    ELSE IF avg_time < performance_thresholds.poor THEN "POOR"
    ELSE "VERY_POOR"

\* A plausible slip: a failed iteration sampled as well, with no latency
response_times_with_failures(res) ==
    [k \in DOMAIN res |-> IF res[k].success THEN res[k].response_time ELSE 0]

\* response_times: the samples of the iterations that succeeded
response_times(res) ==
    LET ok == SelectSeq(res, LAMBDA e : e.success)
    IN  [k \in DOMAIN ok |-> ok[k].response_time]

\* A plausible slip: the population standard deviation instead of the
\* sample one
stdev_divisor_population(n) == n

\* statistics.stdev divides the squared deviations of n samples by n - 1
stdev_divisor(n) == n - 1

\* The analysis dict built from the samples, in units of 0.0001 s, the
\* precision every value is rounded to.  With n samples of sum S and D = n
\* times their squared deviations from the mean, stdev is the square root
\* of D / (n * stdev_divisor(n)), and t > threshold reads
\* (n*t - S)^2 * stdev_divisor(n) > multiplier^2 * n * D for n*t > S.
response_time_analysis(samples) ==
    LET n == Len(samples)
        S == SumOf(samples)
        D == n * SumOf([k \in DOMAIN samples |-> samples[k] * samples[k]]) - S * S
        c == anomaly_threshold_multiplier
        anomalous ==
            SelectSeq(samples,
                      LAMBDA t : /\ n * t > S
                                 /\ (n * t - S) * (n * t - S) * stdev_divisor(n)
                                        > c * c * n * D)
    IN  IF n = 0 THEN [present |-> FALSE, has_std_dev |-> FALSE]
        ELSE IF n = 1
        THEN [present |-> TRUE, has_std_dev |-> FALSE, avg_time |-> RoundDiv(S, n)]
        ELSE [present |-> TRUE,
              has_std_dev |-> TRUE,
              avg_time |-> RoundDiv(S, n),
              std_dev |->
                  (FloorSqrt((4 * D) \div (n * stdev_divisor(n)), 0, 46340) + 1) \div 2,
              anomaly_threshold |->
                  (2 * S + n
                     + FloorSqrt((4 * c * c * n * D) \div stdev_divisor(n), 0, 46340))
                      \div (2 * n),
              anomalous_times |-> anomalous,
              anomaly_count |-> Len(anomalous)]

\* A plausible slip: the rate cut to three decimals instead of rounded
failure_rate_truncated(failed, n) ==
    IF n > 0 THEN (1000 * failed) \div n ELSE 0

\* round(len(errors) / iterations if iterations > 0 else 0, 3), in thousandths
failure_rate(failed, n) ==
    IF n > 0 THEN RoundDiv(1000 * failed, n) ELSE 0

\* The dict dns_response_analysis returns
ResponseAnalysisReport(res) ==
    [kind |-> "returned",
     exc |-> "none",
     iterations |-> EffectiveIterations,
     successful_queries |-> Len(SelectSeq(res, LAMBDA e : e.success)),
     failed_queries |-> Len(SelectSeq(res, LAMBDA e : ~ e.success)),
     failure_rate |->
         failure_rate(Len(SelectSeq(res, LAMBDA e : ~ e.success)), EffectiveIterations),
     response_time_analysis |-> response_time_analysis(response_times(res)),
     performance_rating |->
         IF response_times(res) # <<>>
         THEN get_performance_rating(response_time_analysis(response_times(res)).avg_time)
         ELSE "UNKNOWN",
     anomaly_detection |->
         IF /\ response_time_analysis(response_times(res)).has_std_dev
            /\ response_time_analysis(response_times(res)).anomaly_count > 0
         THEN "DETECTED" ELSE "NONE",
     errors |-> SelectSeq(res, LAMBDA e : ~ e.success),
     results |-> res]

InitResponseAnalysis ==
    /\ op = "dns_response_analysis"
    /\ domains \in [1..1 -> {"a.com"}]
    /\ ips = <<>>
    /\ record_type \in BulkRecordTypeInputs
    /\ nameserver = "None"
    /\ resolver_type = "system"
    /\ max_workers = DefaultMaxWorkers
    /\ resolvers = [none |-> TRUE, items |-> <<>>]
    /\ test_count = {}
    /\ iterations \in { {} } \cup { {n} : n \in (-1)..MaxIterations }
    /\ random_labels = <<>>
    /\ InitGlobalLimiter
    /\ InitTasks

\* dns_response_analysis up to its loop: the default and one resolver
ResponseAnalysisCall ==
    /\ op = "dns_response_analysis"
    /\ opState = "called"
    /\ resolvers_created' = resolvers_created + 1
    /\ opState' = "gathering"
    /\ UNCHANGED <<inputs, actual_workers, semaphore, pc, results, completed,
                   _throttlers, heap, acq, since, issued, outcome, report>>

\* The loop reaches iteration i: the iterations before it are over, and it
\* enters AsyncDNSResolver.query
Iterate(i) ==
    /\ op = "dns_response_analysis"
    /\ opState = "gathering"
    /\ pc[i] = "created"
    /\ \A j \in Tasks : j < i => pc[j] = "done"
    /\ pc' = [pc EXCEPT ![i] = QueryEntryPc]
    /\ UNCHANGED <<inputs, opState, actual_workers, semaphore, results, completed,
                   resolvers_created, _throttlers, heap, acq, since, issued, outcome,
                   report>>

\* The delay after iteration i has elapsed
Sleep(i) ==
    /\ op = "dns_response_analysis"
    /\ opState = "gathering"
    /\ pc[i] = "sleeping"
    /\ pc' = [pc EXCEPT ![i] = "done"]
    /\ UNCHANGED <<inputs, opState, actual_workers, semaphore, results, completed,
                   resolvers_created, _throttlers, heap, acq, since, issued, outcome,
                   report>>

\* The statistics after the loop and the returned dict
ResponseAnalysisFinish ==
    /\ op = "dns_response_analysis"
    /\ opState = "gathering"
    /\ AllDone
    /\ report' = ResponseAnalysisReport(GatherResults)
    /\ opState' = "returned"
    /\ UNCHANGED <<inputs, actual_workers, semaphore, pc, results, completed,
                   resolvers_created, _throttlers, heap, acq, since, issued, outcome>>

(* The tools that fan out over resolvers, under the schedule of an event    *)
(* loop that runs the tasks, in task order, up to their wait for the        *)
(* network, and of resolutions that end oldest first.                       *)

InitAnalysis ==
    \/ InitPropagation
    \/ InitWildcard
    \/ InitQueryAll
    \/ InitResponseAnalysis
    \/ InitDispatch

NextAnalysis ==
    \/ PropagationCall
    \/ \E i \in Tasks : InOrder(i) /\ Acquire(i)
    \/ \E i \in Tasks : Query(i)
    \/ \E i \in Tasks : Oldest(i) /\ Respond(i)
    \/ PropagationFinish
    \/ WildcardCall
    \/ WildcardFinish
    \/ QueryAllCall
    \/ \E i \in Tasks : InOrder(i) /\ Enter(i)
    \/ QueryAllFinish
    \/ ResponseAnalysisCall
    \/ \E i \in Tasks : Iterate(i)
    \/ \E i \in Tasks : Sleep(i)
    \/ ResponseAnalysisFinish
    \/ BulkCall
    \/ BulkFinish

SpecAnalysis == InitAnalysis /\ [][NextAnalysis]_vars

--------------------------------------------------------------------------
(* Properties *)

\* Tasks that have entered AsyncDNSResolver.query and not yet left it
InQuery == {i \in Tasks : pc[i] \in {"rl_wait", "acquired", "resolving"}}

InFlight == Cardinality(InQuery)

\* The tasks whose query failed
Failing == {i \in Tasks : outcome[i] = "error"}

\* C1: whenever dns_bulk_query returns for a non-empty domain list, whatever
\* the order the tasks completed in, results has exactly one entry per input
\* and entry i is the entry of domains[i] (duplicates stay separate entries).
C1_ResultsFollowInputOrder ==
    (op = "dns_bulk_query" /\ domains # <<>> /\ opState = "returned") =>
        /\ Len(report.results) = Len(domains)
        /\ \A i \in 1..Len(domains) :
               /\ "domain" \in report.results[i].keys
               /\ report.results[i].target = domains[i]

\* C1 witness: a returned call over a list with a duplicate whose tasks
\* completed in an order other than the input order.
C1_Witness ==
    /\ op = "dns_bulk_query"
    /\ opState = "returned"
    /\ Len(domains) = 3
    /\ domains[1] = domains[3]
    /\ domains[1] # domains[2]
    /\ completed[1] = 2
    /\ completed[2] = 3

\* C2: when dns_bulk_query returns and the queries of any subset of domains
\* failed, each failing domain has an entry with an error and no records,
\* every other domain's query was issued and has its own records, and
\* successful_queries + failed_queries = domain_count with failed_queries
\* the number of failing domains.
C2_FailureIsolation ==
    (op = "dns_bulk_query" /\ domains # <<>> /\ opState = "returned") =>
        /\ \A i \in Failing :
               /\ "error" \in report.results[i].keys
               /\ "records" \notin report.results[i].keys
               /\ report.results[i].error # NoError
               /\ report.results[i].records = <<>>
        /\ \A i \in Tasks \ Failing :
               /\ outcome[i] = "ok"
               /\ issued[i] = 1
               /\ "error" \notin report.results[i].keys
               /\ "records" \in report.results[i].keys
               /\ report.results[i].error = NoError
        /\ \A i \in Tasks : Len(acq[i]) = 1
        /\ report.count = Len(domains)
        /\ report.successful_queries + report.failed_queries = report.count
        /\ report.failed_queries = Cardinality(Failing)

\* C2 witness: a returned call in which the first task to complete failed
\* and a sibling succeeded after it.
C2_Witness ==
    /\ op = "dns_bulk_query"
    /\ opState = "returned"
    /\ Len(domains) >= 2
    /\ completed[1] \in Failing
    /\ issued[completed[1]] = 1
    /\ \E i \in Tasks : outcome[i] = "ok"
    /\ \E i \in Tasks : i # completed[1] /\ outcome[i] = "error"

\* C3: during a bulk call with max_workers >= 1 the number of tasks inside
\* their resolver query never exceeds min(max_workers, number of inputs),
\* the semaphore was built with that size, and it is the number of inputs
\* when max_workers exceeds it.
C3_BoundedInFlight ==
    (op \in BulkOps /\ max_workers >= 1 /\ Inputs # <<>> /\ opState # "called") =>
        /\ InFlight <= Min(max_workers, Len(Inputs))
        /\ semaphore.created
        /\ actual_workers = Min(max_workers, Len(Inputs))
        /\ max_workers > Len(Inputs) => actual_workers = Len(Inputs)
        /\ semaphore.value + InFlight = actual_workers

\* C3 witness: every permit is taken and a further task waits for one.
C3_Witness ==
    /\ op \in BulkOps
    /\ max_workers = 2
    /\ Len(Inputs) = 3
    /\ InFlight = 2
    /\ \E i \in Tasks : pc[i] = "created"

\* C4 (the claim as stated): with max_workers <= 0 and a non-empty list a bulk
\* call runs with an effective concurrency of exactly 1 and returns a report.
C4_FloorOfOne ==
    (op \in BulkOps /\ max_workers <= 0 /\ Inputs # <<>> /\ opState # "called") =>
        /\ opState # "raised"
        /\ actual_workers = validate_max_workers(max_workers)
        /\ InFlight <= 1

\* C5 (the claim as stated): with max_workers above the ceiling and more
\* domains than the ceiling, at most max_concurrent_workers queries of
\* dns_bulk_query are in flight at once.  Counted here are only the queries
\* whose resolution is issued and unanswered, the narrowest reading of
\* "in flight".
C5_CeilingRespected ==
    (op = "dns_bulk_query" /\ max_workers > max_concurrent_workers
       /\ Len(domains) > max_concurrent_workers) =>
        Cardinality({i \in Tasks : pc[i] = "resolving"}) <= max_concurrent_workers

\* C6: a bulk call with an empty list returns, in its one step, the report
\* with count 0, no successes, no failures, zero timings and no results, and
\* creates no resolver, no semaphore, no rate-limiter entry and no query.
C6_EmptyListNoEffects ==
    [][ (op \in BulkOps /\ Inputs = <<>>) =>
           /\ opState' = "returned"
           /\ report' = [kind |-> "report", count |-> 0, successful_queries |-> 0,
                         failed_queries |-> 0, total_query_time_ms |-> 0,
                         average_query_time_ms |-> 0, results |-> <<>>,
                         exc |-> NoError]
           /\ resolvers_created' = 0
           /\ ~semaphore'.created
           /\ _throttlers' = _throttlers
           /\ heap' = heap
           /\ UNCHANGED <<pc, acq, issued, outcome, results>> ]_vars

\* C6 witness: a bulk reverse lookup over an empty list has returned while
\* the rate limiter holds a throttler of an earlier call.
C6_Witness ==
    /\ op = "dns_bulk_reverse_lookup"
    /\ ips = <<>>
    /\ opState = "returned"
    /\ DOMAIN _throttlers # {}

\* C7 (the claim as stated): an operation never ends by raising; it returns a
\* report in which every failed sub-query is an error field.
C7_AlwaysReturnsReport ==
    op \in ToolOps =>
        /\ opState # "raised"
        /\ opState = "returned" =>
               /\ report.kind = "report"
               /\ \A i \in Failing : "error" \in report.results[i].keys

\* C8 (the claim as stated): dns_bulk_query with an unsupported record type
\* dispatches no per-domain task and reports the validation failure as the
\* error of the whole operation, with no per-domain entries.
C8_NoPartialDispatch ==
    (op = "dns_bulk_query" /\ domains # <<>> /\ ~IsSupported(record_type)) =>
        /\ \A i \in Tasks : pc[i] = "created" /\ acq[i] = <<>>
        /\ opState = "returned" =>
               /\ report.exc # NoError
               /\ report.results = <<>>

\* C9: a call of AsyncDNSResolver.query with a record type outside the
\* supported set (compared without regard to case) never issues the
\* underlying resolution and ends with the ValueError of the validation; a
\* supported type, in any letter case, passes the validation and is issued.
C9_UnsupportedNeverResolved ==
    LET supported == Upper(TaskRecordType) \in SUPPORTED_RECORD_TYPES
    IN
    \A i \in Tasks :
        /\ ~ supported =>
               /\ issued[i] = 0
               /\ pc[i] # "resolving"
               /\ pc[i] = "done" =>
                      /\ outcome[i] = "error"
                      /\ results[i].error.type = "ValueError"
                      /\ results[i].error.details =
                             <<"Unsupported", "record", "type:">> \o TaskRecordType
               /\ op = "resolver_query" => opState # "returned"
        /\ supported =>
               /\ (pc[i] = "done" /\ Len(acq[i]) = 1) => issued[i] = 1
               /\ (op = "resolver_query" /\ opState = "raised") =>
                      report.exc.type # "ValueError"

\* C9 witness: a direct call with a lower-case unsupported type has raised.
C9_Witness ==
    /\ op = "resolver_query"
    /\ record_type = <<"s","p","f">>
    /\ opState = "raised"
    /\ report.exc.type = "ValueError"
    /\ Len(acq[1]) = 1

\* C10: every resolution a call of AsyncDNSResolver.query has issued was
\* preceded, in that call, by exactly one completed acquisition on the rate
\* limiter under the resolver's resolver_id.
C10_AcquireBeforeResolve ==
    \A i \in Tasks :
        /\ issued[i] <= Len(acq[i])
        /\ issued[i] <= 1
        /\ issued[i] = 1 =>
               /\ acq[i] = <<ResolverId(nameserver, resolver_type)>>
               /\ ResolverId(nameserver, resolver_type) \in DOMAIN _throttlers
        /\ pc[i] = "resolving" => issued[i] = 1

\* C10 witness: two tasks of one call are resolving under a custom
\* nameserver's key, each after its own acquisition.
C10_Witness ==
    /\ nameserver # "None"
    /\ \E i, j \in Tasks :
           /\ i # j
           /\ pc[i] = "resolving"
           /\ pc[j] = "resolving"
           /\ acq[i] = << <<"custom", nameserver>> >>
           /\ acq[j] = << <<"custom", nameserver>> >>
    /\ Len(heap[_throttlers[<<"custom", nameserver>>]]._task_logs) >= 2

--------------------------------------------------------------------------
(* The rate limiter *)

\* The callers whose acquisition on key k completed
Acquired(k) == {j \in Tasks : acq[j] = <<k>>}

\* The callers whose acquisition on key k completed within the last period
AcquiredInWindow(k) == {j \in Acquired(k) : since[j] <= TicksPerPeriod}

\* C11: a limiter holds exactly one throttler per key that was ever used,
\* created at the first use of the key, distinct keys have distinct
\* throttlers, a throttler once registered stays registered under its key as
\* the same object, and a caller waits on key k only while rate_limit
\* acquisitions on k itself lie within the last period, whatever happened on
\* the other keys.
C11_OneThrottlerPerKey ==
    /\ [](op \in LimiterOps =>
              /\ DOMAIN _throttlers = {keys[j] : j \in {t \in Tasks : acq[t] # <<>>}}
              /\ Len(heap) = Cardinality(DOMAIN _throttlers)
              /\ \A k1, k2 \in DOMAIN _throttlers :
                     /\ _throttlers[k1] \in DOMAIN heap
                     /\ k1 # k2 => _throttlers[k1] # _throttlers[k2]
              /\ \A i \in Tasks :
                     Blocked(i) =>
                         Cardinality(AcquiredInWindow(keys[i])) >= rate_limit)
    /\ [][ (op \in LimiterOps) =>
               \A k \in DOMAIN _throttlers :
                   /\ k \in DOMAIN _throttlers'
                   /\ _throttlers'[k] = _throttlers[k] ]_vars

\* C11 witness: a caller has just acquired on one key while the throttler of
\* another key is full and keeps a caller waiting.
C11_Witness ==
    /\ op \in LimiterOps
    /\ \E i, b \in Tasks :
           /\ keys[i] # keys[b]
           /\ Blocked(b)
           /\ since[i] = 0
           /\ \A j \in Acquired(keys[b]) : since[j] > 0
           /\ Cardinality(DOMAIN _throttlers) = 2

C13_AcquireEventuallyReturns ==
    \A i \in 1..MaxAcquirers :
        (op \in LimiterOps /\ i \in Tasks /\ pc[i] = "rl_wait") ~>
            (i \in Tasks /\ pc[i] = "done" /\ acq[i] = <<keys[i]>>)

\* C13 witness: MaxAcquirers callers of one key, one admitted per period,
\* have all returned.
C13_Witness ==
    /\ op \in LimiterOps
    /\ rate_limit = 1
    /\ Len(keys) = MaxAcquirers
    /\ \A i \in Tasks : keys[i] = keys[1] /\ pc[i] = "done"

--------------------------------------------------------------------------
(* Termination of a dispatch *)

\* C14: once dns_bulk_query has dispatched its tasks, and provided every
\* underlying resolution returns or fails, the call eventually returns with
\* every task finished; and when it returns every permit is back in the
\* semaphore, whether the tasks succeeded or failed.
C14_DispatchCompletes ==
    /\ (op = "dns_bulk_query" /\ opState = "gathering") ~>
           (opState = "returned" /\ AllDone)
    /\ []((op = "dns_bulk_query" /\ opState = "returned" /\ domains # <<>>) =>
              semaphore.value = actual_workers)

\* C14 witness: with one permit, the task that finished first had failed and
\* the call has returned with every task done.
C14_Witness ==
    /\ op = "dns_bulk_query"
    /\ opState = "returned"
    /\ actual_workers = 1
    /\ Len(domains) >= 2
    /\ AllDone
    /\ outcome[completed[1]] = "error"
    /\ issued[completed[1]] = 1

--------------------------------------------------------------------------
(* Propagation analysis *)

\* The resolvers whose query returned records (history)
Succeeded == {i \in Tasks : outcome[i] = "ok"}

\* How often record r occurs in a list
CountOf(r, l) == Cardinality({k \in DOMAIN l : l[k] = r})

\* Two record lists hold the same records the same number of times
SameRecords(l1, l2) ==
    \A r \in {RecA, RecB} : CountOf(r, l1) = CountOf(r, l2)

\* The successful resolvers, split into those that answered alike
AnswerClasses ==
    {{j \in Succeeded : SameRecords(results[i].records, results[j].records)} :
        i \in Succeeded}

PropagationReturned == op = "dns_propagation_check" /\ opState = "returned"

\* C16: when dns_propagation_check returns, unique_response_count is the
\* number of distinct answers among the successful resolvers (answers being
\* equal when they hold the same records), is_consistent holds exactly when
\* that number is at most 1; so identical answers give a consistent report
\* with count 1 and two different answers an inconsistent one with count >= 2.
C16_ConsistencyFlags ==
    PropagationReturned =>
        /\ report.unique_response_count = Cardinality(AnswerClasses)
        /\ report.is_consistent = (Cardinality(AnswerClasses) <= 1)
        /\ (Succeeded # {} /\ \A i, j \in Succeeded :
                 SameRecords(results[i].records, results[j].records)) =>
               (report.is_consistent /\ report.unique_response_count = 1)
        /\ (\E i, j \in Succeeded :
                 ~SameRecords(results[i].records, results[j].records)) =>
               (~report.is_consistent /\ report.unique_response_count >= 2)

\* C16 witness: three resolvers succeeded with two different answers, one of
\* them given by two resolvers in different order.
C16_Witness ==
    /\ PropagationReturned
    /\ Cardinality(Succeeded) = 3
    /\ report.unique_response_count = 2
    /\ ~report.is_consistent
    /\ \E i, j \in Succeeded : results[i].records = <<RecA, RecB>>
                                /\ results[j].records = <<RecB, RecA>>

\* C17: two successful resolvers whose record lists are permutations of each
\* other are in the same response group; two whose lists differ, be it only
\* by a record repeated, are in different groups and the report is
\* inconsistent.
C17_OrderInsensitiveMultiplicitySensitive ==
    PropagationReturned =>
        \A i, j \in Succeeded :
            IF SameRecords(results[i].records, results[j].records)
            THEN \E g \in report.response_groups : {i, j} \subseteq g.resolvers
            ELSE /\ ~\E g \in report.response_groups : {i, j} \subseteq g.resolvers
                 /\ ~report.is_consistent

\* C17 witness: [a, b] and [b, a] share a group, and [a, a, b], which
\* repeats a record, is in a group of its own.
C17_Witness ==
    /\ PropagationReturned
    /\ \E i, j, k \in Succeeded :
           /\ results[i].records = <<RecA, RecB>>
           /\ results[j].records = <<RecB, RecA>>
           /\ results[k].records = <<RecA, RecA, RecB>>
           /\ \E g \in report.response_groups : g.resolvers = {i, j}
           /\ \E g \in report.response_groups : g.resolvers = {k}
           /\ report.unique_response_count = 2

\* C18: trust_level is HIGH exactly when the answers are consistent and no
\* resolver failed, MEDIUM exactly when they are consistent and a resolver
\* failed, LOW exactly when they are inconsistent.
C18_TrustLevel ==
    PropagationReturned =>
        LET consistent == Cardinality(AnswerClasses) <= 1
            failures == Cardinality(Failing)
        IN /\ (report.trust_level = "HIGH") = (consistent /\ failures = 0)
           /\ (report.trust_level = "MEDIUM") = (consistent /\ failures > 0)
           /\ (report.trust_level = "LOW") = ~consistent
           /\ report.failed_queries = failures

\* C18 witness: two resolvers agree and a third failed: MEDIUM.
C18_Witness ==
    /\ PropagationReturned
    /\ Cardinality(Succeeded) = 2
    /\ Cardinality(Failing) = 1
    /\ issued[CHOOSE i \in Failing : TRUE] = 1
    /\ report.is_consistent
    /\ report.trust_level = "MEDIUM"

\* Every resolver of the check failed, and there was at least one
AllResolversFailed ==
    /\ PropagationReturned
    /\ Tasks # {}
    /\ Failing = Tasks

\* C19 (the claim as stated): when every resolver fails the report is
\* consistent with unique_response_count 0 and its trust_level is LOW.
C19_AllFailedIsLow ==
    AllResolversFailed =>
        /\ report.is_consistent
        /\ report.unique_response_count = 0
        /\ report.trust_level = "LOW"

\* C19 (amended): when every resolver fails the report is consistent with
\* unique_response_count 0 and its trust_level is MEDIUM.
C19_AllFailedIsMedium ==
    AllResolversFailed =>
        /\ report.is_consistent
        /\ report.unique_response_count = 0
        /\ report.successful_queries = 0
        /\ report.trust_level = "MEDIUM"

\* C19 witness: the six default resolvers were all queried and all failed.
C19_Witness ==
    /\ AllResolversFailed
    /\ resolvers.none
    /\ \A i \in Tasks : issued[i] = 1
    /\ report.trust_level = "MEDIUM"

WildcardReturned == op = "dns_wildcard_check" /\ opState = "returned"

\* Every probe of the call returned exactly the one record r
EveryProbeReturned(r) ==
    \A i \in Tasks : outcome[i] = "ok" /\ results[i].records = <<r>>

\* C20: dns_wildcard_check reports has_wildcard false and risk_level LOW when
\* every probe fails, and has_wildcard true with risk_level MEDIUM when every
\* probe returns the same single record and that record matches no CDN
\* indicator.
C20_WildcardVerdict ==
    WildcardReturned =>
        /\ (\A i \in Tasks : outcome[i] = "error") =>
               (~ report.has_wildcard /\ report.risk_level = "LOW")
        /\ \A r \in {RecA, RecB, RecCdn} :
               (EveryProbeReturned(r) /\ ~ is_cdn_related(r)) =>
                   (report.has_wildcard /\ report.risk_level = "MEDIUM")

\* Three test subdomains whose six probes all returned the same non-CDN
\* record, reported as a MEDIUM wildcard
C20_Witness ==
    /\ WildcardReturned
    /\ Len(Inputs) = 2 * default_wildcard_test_count
    /\ EveryProbeReturned(RecA)
    /\ \A i \in Tasks : issued[i] = 1
    /\ report.has_wildcard
    /\ report.risk_level = "MEDIUM"

\* The operations that dispatch query tasks over one resolver
QueryDispatchOps ==
    {"dns_bulk_query", "dns_query_all", "dns_wildcard_check", "dns_response_analysis"}

\* The calls of AsyncDNSResolver.query task i has made: each acquires once
QueryCalls(i) == Len(acq[i])

\* C15: no operation retries.  A task never calls the resolver twice nor
\* has a second resolution issued, and at return every task has made exactly
\* one call, failed or not: dns_bulk_query has one task per domain,
\* dns_query_all 9, dns_wildcard_check 2 * test_count and
\* dns_response_analysis `iterations` (for iterations >= 0).
C15_NoRetries ==
    (op \in QueryDispatchOps) =>
        /\ \A i \in Tasks : QueryCalls(i) <= 1 /\ issued[i] <= 1
        /\ (opState = "returned") =>
               /\ \A i \in Tasks :
                      /\ QueryCalls(i) = 1
                      /\ IsSupported(RecordTypeOf(i)) => issued[i] = 1
               /\ (op = "dns_bulk_query") => Cardinality(Tasks) = Len(domains)
               /\ (op = "dns_query_all") => Cardinality(Tasks) = 9
               /\ (op = "dns_wildcard_check") =>
                      Cardinality(Tasks) = 2 * report.test_count
               /\ (op = "dns_response_analysis" /\ report.iterations >= 0) =>
                      Cardinality(Tasks) = report.iterations

\* A dns_response_analysis with the default ten iterations has returned
\* with failed and successful queries, each iteration having queried once
C15_Witness ==
    /\ op = "dns_response_analysis"
    /\ opState = "returned"
    /\ iterations = {}
    /\ Cardinality(Tasks) = default_propagation_iterations
    /\ \E i \in Tasks : outcome[i] = "error"
    /\ \E i \in Tasks : outcome[i] = "ok"
    /\ \A i \in Tasks : QueryCalls(i) = 1 /\ issued[i] = 1

--------------------------------------------------------------------------
(* Wildcard detection *)

\* The probes of record type rt that returned at least one record
ProbesWithRecords(rt) ==
    {i \in Tasks : Inputs[i][2] = rt /\ outcome[i] = "ok" /\ results[i].records # <<>>}

\* C21 (the claim as stated): a record type is marked wildcard-detected iff
\* at least one probe of that type returned at least one record, and
\* has_wildcard is set iff some type is so marked; a probe that completed
\* with an empty record list marks nothing.
C21_DetectedIffRecord ==
    WildcardReturned =>
        /\ \A rt \in WildcardRecordTypes :
               report.wildcard_analysis[rt].detected <=> ProbesWithRecords(rt) # {}
        /\ report.has_wildcard <=>
               \E rt \in WildcardRecordTypes : ProbesWithRecords(rt) # {}


\* The distinct records the probes of record type rt returned
TargetsOf(rt) ==
    UNION { {results[i].records[k] : k \in DOMAIN results[i].records} :
            i \in {j \in Tasks : Inputs[j][2] = rt /\ outcome[j] = "ok"} }

\* The risk of the probe results when no CDN indicator is taken into account
RiskWithoutIndicator ==
    IF ~ report.has_wildcard THEN "LOW"
    ELSE IF \E rt \in WildcardRecordTypes : Cardinality(TargetsOf(rt)) > 1 THEN "HIGH"
    ELSE "MEDIUM"

\* Some returned target contains a CDN indicator, compared in lower case
IndicatorMatch ==
    \E rt \in WildcardRecordTypes : \E target \in TargetsOf(rt) :
        \E indicator \in CDN_INDICATORS : Contains(Lower(target), indicator)

RiskRank(level) == CASE level = "LOW" -> 0 [] level = "MEDIUM" -> 1 [] level = "HIGH" -> 2

\* C22 (the claim as stated): the risk is LOW with no wildcard, MEDIUM with a
\* wildcard and a single distinct target, HIGH with multiple distinct
\* targets; and when a returned target contains a CDN indicator the reported
\* risk is strictly lower than that, from MEDIUM and from HIGH alike.
C22_RiskWithDowngrade ==
    WildcardReturned =>
        IF IndicatorMatch /\ RiskWithoutIndicator # "LOW"
        THEN RiskRank(report.risk_level) < RiskRank(RiskWithoutIndicator)
        ELSE report.risk_level = RiskWithoutIndicator


\* A test subdomain is 32 lowercase letters or digits, a dot, and the domain
WellFormedSubdomain(sub) ==
    /\ Len(sub[1]) = 32
    /\ \A j \in DOMAIN sub[1] :
           \E n \in 1..Len(SubdomainAlphabet) : sub[1][j] = SubdomainAlphabet[n]
    /\ sub[2] = domains[1]

\* C23: for every requested test_count, below 1, above 10 and None included,
\* dns_wildcard_check uses an effective count c in 1..10 (3 by default, the
\* requested count when it lies in 1..10), generates exactly c test
\* subdomains of the form <32 lowercase alphanumerics>.<domain>, issues
\* exactly one A and one CNAME probe for each, and reports exactly 2*c
\* entries in test_results.
C23_EffectiveTestCount ==
    WildcardReturned =>
        LET c == report.test_count
        IN  /\ c \in 1..10
            /\ test_count = {} => c = 3
            /\ \A n \in test_count : n \in 1..10 => c = n
            /\ Len(report.test_subdomains) = c
            /\ \A k \in 1..c :
                   /\ WellFormedSubdomain(report.test_subdomains[k])
                   /\ Inputs[2 * k - 1] = <<report.test_subdomains[k], <<"A">> >>
                   /\ Inputs[2 * k] = <<report.test_subdomains[k], <<"C","N","A","M","E">> >>
            /\ Cardinality(Tasks) = 2 * c
            /\ \A i \in Tasks : QueryCalls(i) = 1 /\ issued[i] = 1
            /\ Len(report.test_results) = 2 * c

\* A request for eleven test subdomains has returned with ten, twenty probes
\* issued and twenty entries reported
C23_Witness ==
    /\ WildcardReturned
    /\ test_count = {max_wildcard_test_count + 1}
    /\ report.test_count = max_wildcard_test_count
    /\ Len(report.test_results) = 20
    /\ \A i \in Tasks : issued[i] = 1

--------------------------------------------------------------------------
(* Response time analysis *)

ResponseAnalysisReturned == op = "dns_response_analysis" /\ opState = "returned"

\* C24 (the claim as stated): with iterations == 0 no query is issued and the
\* counts and the failure rate are 0; with iterations >= 1 the counts add up
\* to iterations and failure_rate is exactly failed_queries / iterations.
C24_ExactFailureRate ==
    ResponseAnalysisReturned =>
        /\ report.iterations = 0 =>
               /\ Tasks = {}
               /\ report.successful_queries = 0
               /\ report.failed_queries = 0
               /\ report.failure_rate = 0
        /\ report.iterations >= 1 =>
               /\ report.successful_queries + report.failed_queries = report.iterations
               /\ report.failure_rate * report.iterations = 1000 * report.failed_queries

\* C24 (amended): as above, with failure_rate the ratio rounded to three
\* decimals, that is the thousandth nearest to failed_queries / iterations;
\* the counts are those of the iterations that succeeded and that failed.
C24_RoundedFailureRate ==
    ResponseAnalysisReturned =>
        /\ report.iterations = 0 =>
               /\ Tasks = {}
               /\ report.successful_queries = 0
               /\ report.failed_queries = 0
               /\ report.failure_rate = 0
        /\ report.iterations >= 1 =>
               LET d == 1000 * report.failed_queries
                            - report.failure_rate * report.iterations
               IN  /\ report.successful_queries = Cardinality({i \in Tasks : outcome[i] = "ok"})
                   /\ report.failed_queries = Cardinality({i \in Tasks : outcome[i] = "error"})
                   /\ report.successful_queries + report.failed_queries = report.iterations
                   /\ 2 * d <= report.iterations
                   /\ 2 * d >= - report.iterations

\* Three iterations of which two failed: the rate reported is 0.667
C24_Witness ==
    /\ ResponseAnalysisReturned
    /\ report.iterations = 3
    /\ report.failed_queries = 2
    /\ report.successful_queries = 1
    /\ report.failure_rate = 667


\* C25: dns_response_analysis is strictly serial.  At most one of its
\* queries is in flight; an iteration starts only when every earlier one has
\* returned or failed and its delay has elapsed; every iteration but the
\* last, failed or not, ends with one delay and the last with none, so that
\* exactly iterations-1 delays occur; and at return every iteration has
\* queried, whatever failed before it.
C25_StrictlySerial ==
    /\ [](op = "dns_response_analysis" =>
              /\ InFlight <= 1
              /\ \A i \in Tasks :
                     /\ pc[i] # "created" => \A j \in Tasks : j < i => pc[j] = "done"
                     /\ pc[i] = "sleeping" => i < Cardinality(Tasks)
              /\ opState = "returned" => \A i \in Tasks : QueryCalls(i) = 1)
    /\ [][ (op = "dns_response_analysis") =>
               \A i \in Tasks :
                   (pc[i] # "done" /\ pc'[i] = "done") =>
                       (pc[i] = "sleeping" <=> i < Cardinality(Tasks)) ]_vars

\* The second of three iterations has failed and is in its delay, the first
\* is over and the third has not started
C25_Witness ==
    /\ op = "dns_response_analysis"
    /\ Cardinality(Tasks) = 3
    /\ pc = <<"done", "sleeping", "created">>
    /\ outcome[2] = "error"
    /\ issued[2] = 1


\* The latencies of the iterations that succeeded, in iteration order
SuccessfulLatencies ==
    LET ok == SelectSeq([i \in DOMAIN results |-> i], LAMBDA i : outcome[i] = "ok")
    IN  [k \in DOMAIN ok |-> results[ok[k]].response_time]

\* n times the squared deviations of the samples from their mean, so that
\* the sample variance is SquaredDeviations / (n * (n - 1))
SquaredDeviations(xs) ==
    Len(xs) * SumOf([k \in DOMAIN xs |-> xs[k] * xs[k]]) - SumOf(xs) * SumOf(xs)

\* t > mean + 2.0 * stdev of the samples xs, in whole numbers
AboveThreshold(t, xs) ==
    LET n == Len(xs)
        e == n * t - SumOf(xs)
    IN  e > 0 /\ e * e * (n - 1) > 4 * n * SquaredDeviations(xs)

\* C26, presence, listing and verdict: std_dev, anomaly_threshold and
\* anomaly_count are present iff at least two iterations succeeded, failed
\* iterations contributing no sample; a sample is listed as anomalous iff it
\* is strictly greater than mean + 2.0 * stdev; anomaly_detection is DETECTED
\* iff anomaly_count > 0.
AnomalyListing ==
    LET xs == SuccessfulLatencies
        a  == report.response_time_analysis
    IN  /\ Len(xs) = Cardinality({i \in Tasks : outcome[i] = "ok"})
        /\ a.has_std_dev <=> Len(xs) >= 2
        /\ a.has_std_dev =>
               /\ a.anomalous_times = SelectSeq(xs, LAMBDA t : AboveThreshold(t, xs))
               /\ a.anomaly_count = Len(a.anomalous_times)
        /\ report.anomaly_detection = "DETECTED"
               <=> (a.has_std_dev /\ a.anomaly_count > 0)
        /\ report.anomaly_detection \in {"DETECTED", "NONE"}

\* C26 (the claim as stated): with at least two successful samples the
\* reported anomaly_threshold equals mean + 2.0 * stdev of the successful
\* latencies, and a sample is listed iff it is strictly greater.
C26_ExactThreshold ==
    ResponseAnalysisReturned =>
        /\ AnomalyListing
        /\ report.response_time_analysis.has_std_dev =>
               LET xs == SuccessfulLatencies
                   n  == Len(xs)
                   e  == n * report.response_time_analysis.anomaly_threshold - SumOf(xs)
               IN  e >= 0 /\ e * e * (n - 1) = 4 * n * SquaredDeviations(xs)

\* C26 (amended): as above, with the reported std_dev and anomaly_threshold
\* the values rounded to four decimals, that is within half a unit of the
\* sample standard deviation and of mean + 2.0 * stdev; the listing is
\* decided by the threshold before rounding.
C26_RoundedThreshold ==
    ResponseAnalysisReturned =>
        /\ AnomalyListing
        /\ report.response_time_analysis.has_std_dev =>
               LET xs == SuccessfulLatencies
                   n  == Len(xs)
                   D  == SquaredDeviations(xs)
                   r  == 2 * report.response_time_analysis.std_dev
                   x  == 2 * n * report.response_time_analysis.anomaly_threshold
                             - 2 * SumOf(xs)
               IN  /\ r >= 0
                   /\ r >= 1 => (r - 1) * (r - 1) * n * (n - 1) <= 4 * D
                   /\ 4 * D <= (r + 1) * (r + 1) * n * (n - 1)
                   /\ x + n >= 0
                   /\ x >= n => (x - n) * (x - n) * (n - 1) <= 16 * n * D
                   /\ 16 * n * D <= (x + n) * (x + n) * (n - 1)

\* Ten iterations of which one failed, one took 0.1 s and eight 0.01 s: the
\* slow one lies above the threshold of 0.02 + 2.0 * 0.03 = 0.08 s
C26_Witness ==
    /\ ResponseAnalysisReturned
    /\ report.failed_queries = 1
    /\ report.successful_queries = 9
    /\ report.response_time_analysis.has_std_dev
    /\ report.response_time_analysis.anomaly_threshold = 800
    /\ report.response_time_analysis.anomalous_times = <<1000>>
    /\ report.anomaly_detection = "DETECTED"


--------------------------------------------------------------------------
(* format_error_response as a whole: the dict it returns for an error, a   *)
(* context and the reading of the UTC clock.  A dict is a function from    *)
(* its keys; a message is the sequence of its fragments, each one of the   *)
(* patterns looked for or other text; an absent context is the empty one.  *)

\* The osint_insights written by the branch of each kind
osint_insights(kind) ==
    CASE kind = "domain_not_found" ->
             [possible_scenarios |->
                  <<"Domain never existed (typosquatting target)",
                    "Domain expired (abandoned infrastructure)",
                    "Domain suspended (possible takedown)",
                    "DNS configuration error">>,
              investigation_tips |->
                  <<"Check historical DNS records",
                    "Search for similar domain variations",
                    "Verify domain registration status">>]
      [] kind = "no_records" ->
             [possible_scenarios |->
                  <<"Record type not configured",
                    "Selective DNS response (geo-blocking)",
                    "DNS filtering/sinkholing">>,
              investigation_tips |->
                  <<"Try different record types",
                    "Query from different resolver locations",
                    "Check if domain is parked">>]
      [] kind = "timeout" ->
             [possible_scenarios |->
                  <<"Slow/overloaded nameserver",
                    "Network filtering",
                    "DDoS protection triggering">>,
              investigation_tips |->
                  <<"Retry with longer timeout",
                    "Try alternative resolver",
                    "Check nameserver health">>]
      [] kind = "server_failure" ->
             [possible_scenarios |->
                  <<"Authoritative server error",
                    "DNSSEC validation failure",
                    "Nameserver misconfiguration">>,
              investigation_tips |->
                  <<"Try different resolver",
                    "Check DNSSEC status",
                    "Verify nameserver configuration">>]
      [] kind = "query_refused" ->
             [possible_scenarios |->
                  <<"Recursive queries disabled",
                    "Access control restrictions",
                    "Rate limiting active">>,
              investigation_tips |->
                  <<"Try authoritative nameserver",
                    "Use different source IP",
                    "Reduce query rate">>]

\* The dict returned: the base response, updated with the context, updated
\* with the keys of the branch taken (none when no pattern matches)
format_error_response_dict(e, ctx, utcnow) ==
    LET response ==
            ctx @@ [error |-> "unknown", type |-> e.type, details |-> e.msg,
                    timestamp |-> utcnow]
        branch == format_error_response(e)
    IN  IF branch.error # "unknown"
        THEN [error |-> branch.error, type |-> branch.type,
              osint_insights |-> osint_insights(branch.error)] @@ response
        ELSE response

\* The fragments of a message: the patterns, in the cases looked for and in
\* others, and text that matches nothing
MessageFragments ==
    {"NXDOMAIN", "No such domain", "No answer", "NODATA", "timeout", "Timeout",
     "TIMEOUT", "SERVFAIL", "REFUSED", "nxdomain", "Invalid input"}

\* Exceptions by type name and message
ErrorInputs ==
    [type : {"Exception", "ValueError", "Timeout", "LifetimeTimeout", "timeout"},
     msg  : UNION { [1..n -> MessageFragments] : n \in 0..MaxMessageLen }]

\* What a caller puts under a key of its context: a value of the kind the
\* key holds, and never one format_error_response writes itself
ContextValue(k) ==
    CASE k = "details" -> <<"caller's details">>
      [] k = "timestamp" -> 0
      [] k = "osint_insights" ->
             [possible_scenarios |-> <<"caller's scenario">>,
              investigation_tips |-> <<"caller's tip">>]
      [] OTHER -> "caller's " \o k

\* The keys format_error_response writes
OwnedKeys == {"error", "type", "details", "timestamp", "osint_insights"}

\* No context, the contexts the tools pass, and contexts with keys that
\* format_error_response writes
ContextInputs ==
    { [k \in ks |-> ContextValue(k)] :
        ks \in {{}, {"domain"}, {"domain", "resolver", "operation"}, OwnedKeys}
                  \cup { {k, "domain"} : k \in OwnedKeys } }

\* The readings of the UTC clock
UtcTimes == {1, 2}

InitErrors ==
    /\ op = "format_error_response"
    /\ error \in ErrorInputs
    /\ context \in ContextInputs
    /\ timeout = DefaultTimeout
    /\ raw_record = NoRecord
    /\ domains = <<>>
    /\ ips = <<>>
    /\ record_type = <<"A">>
    /\ nameserver = "None"
    /\ resolver_type = "system"
    /\ max_workers = DefaultMaxWorkers
    /\ resolvers = [none |-> TRUE, items |-> <<>>]
    /\ test_count = {}
    /\ iterations = {}
    /\ random_labels = <<>>
    /\ InitGlobalLimiter
    /\ opState = "called"
    /\ actual_workers = 0
    /\ semaphore = [created |-> FALSE, value |-> 0]
    /\ pc = <<>>
    /\ results = <<>>
    /\ completed = <<>>
    /\ resolvers_created = 0
    /\ acq = <<>>
    /\ since = <<>>
    /\ issued = <<>>
    /\ outcome = <<>>
    /\ report = NoReport

\* format_error_response, from its call to its return
FormatError ==
    /\ op = "format_error_response"
    /\ opState = "called"
    /\ \E utcnow \in UtcTimes :
           report' = [response |-> format_error_response_dict(error, context, utcnow),
                      utcnow   |-> utcnow]
    /\ opState' = "returned"
    /\ UNCHANGED <<inputs, actual_workers, semaphore, pc, results, completed,
                   resolvers_created, _throttlers, heap, acq, since, issued, outcome>>

NextErrors == FormatError

SpecErrors == InitErrors /\ [][NextErrors]_vars


--------------------------------------------------------------------------
(* Properties of format_error_response *)

ErrorReturned == op = "format_error_response" /\ opState = "returned"

\* The kinds with a pattern, in the order their patterns are tried
KindOrder ==
    <<"domain_not_found", "no_records", "timeout", "server_failure", "query_refused">>

\* The pattern of a kind occurs in the error
Matches(e, kind) ==
    CASE kind = "domain_not_found" ->
             \E k \in DOMAIN e.msg : e.msg[k] \in {"NXDOMAIN", "No such domain"}
      [] kind = "no_records" ->
             \E k \in DOMAIN e.msg : e.msg[k] \in {"No answer", "NODATA"}
      [] kind = "timeout" ->
             \/ \E k \in DOMAIN e.msg : e.msg[k] \in {"timeout", "Timeout", "TIMEOUT"}
             \/ e.type \in {"Timeout", "LifetimeTimeout"}
      [] kind = "server_failure" -> \E k \in DOMAIN e.msg : e.msg[k] = "SERVFAIL"
      [] kind = "query_refused" -> \E k \in DOMAIN e.msg : e.msg[k] = "REFUSED"

\* The kind of the first pattern that occurs, unknown when none does
FirstMatch(e) ==
    LET hits == {j \in DOMAIN KindOrder : Matches(e, KindOrder[j])}
    IN  IF hits = {} THEN "unknown"
        ELSE KindOrder[CHOOSE j \in hits : \A h \in hits : j <= h]

\* The type written with each kind
TypeOfKind(kind, e) ==
    CASE kind = "domain_not_found" -> "NXDOMAIN"
      [] kind = "no_records" -> "NoAnswer"
      [] kind = "timeout" -> "Timeout"
      [] kind = "server_failure" -> "SERVFAIL"
      [] kind = "query_refused" -> "REFUSED"
      [] OTHER -> e.type

\* C28: the error kind returned is that of the first pattern, in the order
\* NXDOMAIN / No such domain, No answer / NODATA, timeout (any case) or
\* Timeout in the type name, SERVFAIL, REFUSED, that occurs in the error, and
\* unknown when none occurs; a message containing NXDOMAIN gives
\* domain_not_found whatever else it contains; so the kind is a function of
\* the message and the type name alone.
C28_FirstMatchWins ==
    ErrorReturned =>
        /\ report.response.error = FirstMatch(error)
        /\ Has(error.msg, "NXDOMAIN") => report.response.error = "domain_not_found"

\* C29: the context's fields are in the output, and the keys the classifier
\* writes keep its values: error and type those of the classification,
\* details the error message, timestamp the reading of the UTC clock.
C29_ContextKeepsOwnedKeys ==
    ErrorReturned =>
        /\ \A k \in DOMAIN context \ OwnedKeys :
               k \in DOMAIN report.response /\ report.response[k] = context[k]
        /\ report.response.error = FirstMatch(error)
        /\ report.response.type = TypeOfKind(FirstMatch(error), error)
        /\ report.response.details = error.msg
        /\ report.response.timestamp = report.utcnow

\* C30: the error kind is one of the six, and every kind, unknown included,
\* comes with possible_scenarios and investigation_tips that depend on the
\* kind alone.
C30_ClosedKindsWithMetadata ==
    ErrorReturned =>
        /\ report.response.error
               \in {"domain_not_found", "no_records", "timeout", "server_failure",
                    "query_refused", "unknown"}
        /\ "osint_insights" \in DOMAIN report.response
        /\ DOMAIN report.response.osint_insights
               = {"possible_scenarios", "investigation_tips"}
        /\ report.response.error # "unknown"
               => report.response.osint_insights = osint_insights(report.response.error)


--------------------------------------------------------------------------
(* Properties of the reports: accounting *)

RECURSIVE SumOver(_, _)
\* The sum of f[x] over the finite set S
SumOver(f, S) ==
    IF S = {} THEN 0
    ELSE LET x == CHOOSE y \in S : TRUE IN f[x] + SumOver(f, S \ {x})

\* C37: in every dns_propagation_check report the successes and the
\* failures add up to the resolvers queried and to the entries of
\* resolver_results; every successful resolver is in exactly one response
\* group, that of its sorted records; the resolver_count values sum to
\* successful_queries; no two groups have the same records.
C37_PropagationAccounting ==
    PropagationReturned =>
        LET groups == report.response_groups
            ok     == {i \in Tasks : outcome[i] = "ok"}
        IN  /\ report.successful_queries = Cardinality(ok)
            /\ report.failed_queries = Cardinality({i \in Tasks : outcome[i] = "error"})
            /\ report.successful_queries + report.failed_queries
                   = report.total_resolvers_queried
            /\ report.total_resolvers_queried = Len(report.results)
            /\ \A i \in ok :
                   /\ Cardinality({g \in groups : i \in g.resolvers}) = 1
                   /\ \A g \in groups :
                          i \in g.resolvers => SameRecords(g.records, results[i].records)
            /\ \A g \in groups : g.resolvers \subseteq ok
            /\ SumOver([g \in groups |-> g.resolver_count], groups)
                   = report.successful_queries
            /\ \A g, h \in groups : g.records = h.records => g = h

\* The six default resolvers: one failed, three gave one answer and two
\* another
C37_Witness ==
    /\ PropagationReturned
    /\ report.total_resolvers_queried = 6
    /\ report.failed_queries = 1
    /\ {g.resolver_count : g \in report.response_groups} = {2, 3}


QueryAllReturned == op = "dns_query_all" /\ opState = "returned"

\* The keys of a dict given as its items
KeysOf(items) == {items[k][1] : k \in DOMAIN items}

\* C38: in every dns_query_all report, records has exactly the record types
\* whose query succeeded with at least one record, each with the list
\* returned; errors has exactly the types whose query failed, and the key
\* is absent when none failed; the two key sets are disjoint and a type that
\* succeeded with no record is in neither; record_types_found is the number
\* of keys of records and total_records the sum of the lengths of its lists.
C38_QueryAllAccounting ==
    QueryAllReturned =>
        LET found  == {i \in Tasks : outcome[i] = "ok" /\ results[i].records # <<>>}
            empty  == {i \in Tasks : outcome[i] = "ok" /\ results[i].records = <<>>}
            failed == {i \in Tasks : outcome[i] = "error"}
        IN  /\ KeysOf(report.records) = {Inputs[i] : i \in found}
            /\ Len(report.records) = Cardinality(found)
            /\ \A i \in found :
                   \E k \in DOMAIN report.records :
                       report.records[k] = <<Inputs[i], results[i].records>>
            /\ KeysOf(report.errors) = {Inputs[i] : i \in failed}
            /\ Len(report.errors) = Cardinality(failed)
            /\ report.has_errors <=> failed # {}
            /\ KeysOf(report.records) \cap KeysOf(report.errors) = {}
            /\ \A i \in empty :
                   Inputs[i] \notin KeysOf(report.records) \cup KeysOf(report.errors)
            /\ report.record_types_found = Cardinality(KeysOf(report.records))
            /\ report.total_records
                   = SumOver([i \in Tasks |->
                                 IF i \in found THEN Len(results[i].records) ELSE 0],
                             Tasks)

\* One type answered with two records, one with none, and one failed
C38_Witness ==
    /\ QueryAllReturned
    /\ \E i, j, k \in Tasks :
           /\ outcome[i] = "ok" /\ Len(results[i].records) = 2
           /\ outcome[j] = "ok" /\ results[j].records = <<>>
           /\ outcome[k] = "error"
    /\ report.has_errors
    /\ report.total_records >= 2


\* C34: dns_query_all queries each of the nine record types A, AAAA, MX,
\* TXT, NS, SOA, CNAME, CAA, SRV once and never PTR; at every moment at most
\* dns_query_all_concurrency = 3 of the queries are in flight; a query that
\* has failed has given its slot back, so that whenever fewer than three are
\* in flight the next type waiting can start, and at return every type has
\* been queried whatever failed.
C34_QueryAllConcurrency ==
    (op = "dns_query_all") =>
        /\ Inputs = << <<"A">>, <<"A","A","A","A">>, <<"M","X">>, <<"T","X","T">>,
                       <<"N","S">>, <<"S","O","A">>, <<"C","N","A","M","E">>,
                       <<"C","A","A">>, <<"S","R","V">> >>
        /\ InFlight <= 3
        /\ \A i \in Tasks : QueryCalls(i) <= 1 /\ issued[i] <= 1
        /\ semaphore.created => semaphore.value + InFlight = 3
        /\ (opState = "gathering" /\ InFlight < 3) =>
               \A i \in Tasks :
                   (pc[i] = "created" /\ \A j \in Tasks : j < i => pc[j] # "created")
                       => ENABLED Enter(i)
        /\ (opState = "returned") =>
               \A i \in Tasks : QueryCalls(i) = 1 /\ issued[i] = 1

\* Three queries are in flight after two others failed, and types still wait
C34_Witness ==
    /\ op = "dns_query_all"
    /\ InFlight = 3
    /\ Cardinality({i \in Tasks : outcome[i] = "error"}) = 2
    /\ \E i \in Tasks : pc[i] = "created"


\* C39: in AsyncDNSResolver.query the rate limiter is awaited before the
\* record type is validated.  A call with an unsupported record type has not
\* failed while it waits for the limiter, and when it fails with the
\* ValueError of the validation it has completed exactly one acquisition on
\* its resolver's key; the failing step is taken after that acquisition.
C39_AcquireBeforeValidation ==
    /\ [](\A i \in Tasks :
              (op \notin LimiterOps /\ ~ IsSupported(RecordTypeOf(i))) =>
                  /\ pc[i] = "rl_wait" => (outcome[i] = "pending" /\ acq[i] = <<>>)
                  /\ outcome[i] = "error" =>
                         /\ acq[i] = <<TaskKey(i)>>
                         /\ TaskKey(i) \in DOMAIN _throttlers
                         /\ since[i] >= 0
                         /\ issued[i] = 0)
    /\ [][ \A i \in Tasks :
               (/\ op \notin LimiterOps
                /\ ~ IsSupported(RecordTypeOf(i))
                /\ outcome[i] = "pending"
                /\ outcome'[i] = "error")
                   => (pc[i] = "acquired" /\ acq[i] = <<TaskKey(i)>> /\ acq' = acq) ]_vars

\* A bulk query with an unsupported record type: the first task has failed
\* after its acquisition while the second still waits for the limiter
C39_Witness ==
    /\ op = "dns_bulk_query"
    /\ ~ IsSupported(TaskRecordType)
    /\ Len(domains) >= 2
    /\ outcome[1] = "error"
    /\ results[1].error.type = "ValueError"
    /\ acq[1] = <<TaskKey(1)>>
    /\ pc[2] = "rl_wait"


\* C40: with two to five successful samples no sample exceeds
\* mean + 2 * sample stdev, so anomaly_count is 0, no sample is listed and
\* anomaly_detection is NONE; with fewer than two there is no anomaly_count
\* and the verdict is NONE as well.  An anomaly is reported only when at
\* least six queries succeeded.
C40_NoAnomalyBelowSix ==
    ResponseAnalysisReturned =>
        LET xs == SuccessfulLatencies
            a  == report.response_time_analysis
        IN  /\ (Len(xs) >= 2 /\ Len(xs) <= 5) =>
                   /\ \A k \in DOMAIN xs : ~ AboveThreshold(xs[k], xs)
                   /\ a.anomaly_count = 0
                   /\ a.anomalous_times = <<>>
            /\ Len(xs) < 6 => report.anomaly_detection = "NONE"
            /\ report.anomaly_detection = "DETECTED" => report.successful_queries >= 6

\* Five of ten iterations succeeded, one of them ten times slower than the
\* four others: the farthest a sample of five can lie from the mean, and
\* still below the threshold
C40_Witness ==
    /\ ResponseAnalysisReturned
    /\ report.iterations = 10
    /\ report.successful_queries = 5
    /\ \E k \in DOMAIN SuccessfulLatencies : SuccessfulLatencies[k] = 1000
    /\ Cardinality({k \in DOMAIN SuccessfulLatencies : SuccessfulLatencies[k] = 100}) = 4
    /\ report.response_time_analysis.anomaly_count = 0
    /\ report.anomaly_detection = "NONE"


--------------------------------------------------------------------------
(* Properties of the per-query outcomes *)

\* The operations that return per-query outcome dicts
OutcomeOps ==
    {"dns_query", "dns_reverse_lookup", "dns_bulk_query", "dns_bulk_reverse_lookup",
     "dns_propagation_check", "dns_wildcard_check"}

\* An outcome dict has exactly one of the success payload and the error
\* payload, and the elapsed time
WellFormedOutcome(entry) ==
    /\ (entry.keys \cap {"records", "hostnames"} # {}) # ("error" \in entry.keys)
    /\ "query_time_seconds" \in entry.keys

\* C31: every per-query outcome an operation returns (the dns_query and
\* dns_reverse_lookup reports, the entries of bulk results, of
\* resolver_results and of test_results) has exactly one of the success
\* payload (records / hostnames) and the error payload, and carries
\* query_time_seconds, outcomes of inputs rejected before any query
\* included.
C31_OneVariantWithElapsedTime ==
    (op \in OutcomeOps /\ opState = "returned" /\ report.kind = "report") =>
        \A k \in DOMAIN report.results : WellFormedOutcome(report.results[k])


\* C32: dns_reverse_lookup with a syntactically invalid ip returns, as its
\* first step, a report that echoes the ip and carries an error, with no
\* resolver created, no acquisition on the rate limiter and no query issued;
\* with a valid ip it creates one resolver and issues exactly one PTR query.
C32_InvalidIpRejectedLocally ==
    /\ []((op = "dns_reverse_lookup" /\ ips[1] \notin ValidIps) =>
              /\ resolvers_created = 0
              /\ \A i \in Tasks : acq[i] = <<>> /\ issued[i] = 0 /\ pc[i] = "created"
              /\ opState \in {"called", "returned"}
              /\ opState = "returned" =>
                     /\ Len(report.results) = 1
                     /\ report.results[1].target = ips[1]
                     /\ {"ip", "error"} \subseteq report.results[1].keys
                     /\ report.results[1].keys \cap {"hostnames", "reverse_domain"} = {}
                     /\ report.results[1].error.error # "none")
    /\ []((op = "dns_reverse_lookup" /\ ips[1] \in ValidIps /\ opState = "returned") =>
              /\ resolvers_created = 1
              /\ RecordTypeOf(1) = <<"P","T","R">>
              /\ QueryCalls(1) = 1
              /\ issued[1] = 1
              /\ report.results[1].target = ips[1]
              /\ {"ip", "reverse_domain"} \subseteq report.results[1].keys)
    /\ [][ (op = "dns_reverse_lookup" /\ ips[1] \notin ValidIps /\ opState = "called")
               => (opState' = "returned" /\ _throttlers' = _throttlers /\ heap' = heap) ]_vars

\* An invalid ip has been rejected while the rate limiter holds throttlers
\* of earlier calls, left as they were
C32_Witness ==
    /\ op = "dns_reverse_lookup"
    /\ ips = <<"not-an-ip">>
    /\ opState = "returned"
    /\ resolvers_created = 0
    /\ "error" \in report.results[1].keys
    /\ DOMAIN _throttlers # {}


\* C33: dns_bulk_reverse_lookup, for every list of valid and invalid ips:
\* results has one entry per input, in input order, entry i echoing ips[i];
\* an invalid ip has an error entry and never reaches the rate limiter or
\* the resolver; every valid sibling is queried once and has its own
\* outcome; successful_queries + failed_queries = ip_count = len(results).
C33_BulkReverseSymmetry ==
    (op = "dns_bulk_reverse_lookup") =>
        /\ \A i \in Tasks :
               ips[i] \notin ValidIps => (acq[i] = <<>> /\ issued[i] = 0)
        /\ (opState = "returned") =>
               /\ Len(report.results) = Len(ips)
               /\ report.count = Len(ips)
               /\ report.successful_queries + report.failed_queries = report.count
               /\ report.failed_queries
                      = Cardinality({i \in Tasks : "error" \in report.results[i].keys})
               /\ \A i \in Tasks :
                      /\ "ip" \in report.results[i].keys
                      /\ report.results[i].target = ips[i]
                      /\ ips[i] \notin ValidIps =>
                             /\ "error" \in report.results[i].keys
                             /\ "hostnames" \notin report.results[i].keys
                             /\ report.results[i].error.error # "none"
                      /\ ips[i] \in ValidIps =>
                             /\ QueryCalls(i) = 1
                             /\ issued[i] = 1
                             /\ outcome[i] = "ok" =>
                                    /\ "hostnames" \in report.results[i].keys
                                    /\ "error" \notin report.results[i].keys
                             /\ outcome[i] = "error" =>
                                    /\ "error" \in report.results[i].keys
                                    /\ "hostnames" \notin report.results[i].keys

\* An invalid ip between two valid ones: the first was answered, the query
\* of the third failed
C33_Witness ==
    /\ op = "dns_bulk_reverse_lookup"
    /\ opState = "returned"
    /\ Len(ips) = 3
    /\ ips[1] \in ValidIps /\ ips[2] \notin ValidIps /\ ips[3] \in ValidIps
    /\ outcome[1] = "ok"
    /\ outcome[3] = "error"
    /\ report.successful_queries = 1
    /\ report.failed_queries = 2


--------------------------------------------------------------------------
(* The timeout handed to the resolver *)

\* config.min_timeout and config.max_timeout, in seconds
min_timeout == 1

max_timeout == 60

\* DNSConfig.validate_timeout.  No tool calls it.
validate_timeout(t) == Max(min_timeout, Min(t, max_timeout))

\* The timeout keyword every tool gives create_resolver: float(timeout), the
\* same number as the argument.  AsyncDNSResolver.__init__ stores it and
\* gives it to aiodns.DNSResolver unchanged.
create_resolver_timeout == timeout

\* Timeouts a caller may pass: below, at and above both ends of the range
TimeoutInputs == {-1, 0, min_timeout, DefaultTimeout, max_timeout, max_timeout + 1}

\* dns_query and dns_reverse_lookup called with any of these timeouts
InitTimeout ==
    /\ op \in SingleOps
    /\ IF op = "dns_query"
       THEN /\ domains \in [1..1 -> Domains]
            /\ ips = <<>>
            /\ record_type \in RecordTypeInputs
       ELSE /\ domains = <<>>
            /\ ips \in [1..1 -> Ips]
            /\ record_type = <<"P","T","R">>
    /\ nameserver \in Nameservers
    /\ resolver_type \in ResolverTypes
    /\ max_workers = DefaultMaxWorkers
    /\ timeout \in TimeoutInputs
    /\ raw_record = NoRecord
    /\ NoAnalysisArgs
    /\ InitGlobalLimiter
    /\ error = NoException
    /\ context = <<>>
    /\ opState = "called"
    /\ actual_workers = 0
    /\ semaphore = [created |-> FALSE, value |-> 0]
    /\ pc = [i \in Tasks |-> "created"]
    /\ results = [i \in Tasks |-> NoResult]
    /\ completed = <<>>
    /\ resolvers_created = 0
    /\ acq = [i \in Tasks |-> <<>>]
    /\ since = [i \in Tasks |-> -1]
    /\ issued = [i \in Tasks |-> 0]
    /\ outcome = [i \in Tasks |-> "pending"]
    /\ report = NoReport

NextTimeout ==
    \/ SingleCall
    \/ \E i \in Tasks : Acquire(i)
    \/ \E i \in Tasks : Query(i)
    \/ \E i \in Tasks : Respond(i)
    \/ SingleFinish

SpecTimeout == InitTimeout /\ [][NextTimeout]_vars

\* C35: once an operation has created its resolver, the timeout it gave it
\* lies within [min_timeout, max_timeout]: it is the caller's timeout
\* clamped by validate_timeout.
C35_TimeoutClamped ==
    resolvers_created > 0 =>
        /\ create_resolver_timeout = validate_timeout(timeout)
        /\ create_resolver_timeout >= min_timeout
        /\ create_resolver_timeout <= max_timeout


--------------------------------------------------------------------------
(* AsyncDNSResolver._format_record *)

\* A raw record is its attributes (name -> value, the values already in the
\* form str() gives them) and its plain string form, str(record).
hasattr(rec, name) == name \in DOMAIN rec.attrs

\* The value of an f-string "{record.a} {record.b} ...": the attribute values
\* separated by single spaces; reading an attribute the record does not have
\* raises AttributeError.
fstring(rec, names) ==
    IF \E k \in DOMAIN names : ~hasattr(rec, names[k])
    THEN [raised |-> "AttributeError", value |-> <<>>]
    ELSE [raised |-> "None",
          value  |-> [k \in 1..(2 * Len(names) - 1) |->
                         IF k % 2 = 1 THEN rec.attrs[names[(k + 1) \div 2]]
                         ELSE " "]]

\* A value returned as it is: str(x) of a value already a string
str_of(x) == [raised |-> "None", value |-> <<x>>]

\* TXT payloads that are bytes, and what decode('utf-8') gives for them
BytesTexts == {"b'v=spf1 -all'"}

decode(text) == IF text = "b'v=spf1 -all'" THEN "v=spf1 -all" ELSE text

_format_record(rtype, rec) ==
    IF rtype = <<"M","X">> THEN
        fstring(rec, <<"priority", "host">>)
    ELSE IF rtype = <<"S","O","A">> THEN
        fstring(rec, <<"mname", "rname", "serial", "refresh", "retry",
                       "expire", "minimum">>)
    ELSE IF rtype = <<"T","X","T">> THEN
        IF hasattr(rec, "text")
        THEN IF rec.attrs["text"] \in BytesTexts
             THEN str_of(decode(rec.attrs["text"]))
             ELSE str_of(rec.attrs["text"])
        ELSE str_of(rec.str)
    ELSE IF rtype = <<"S","R","V">> THEN
        fstring(rec, <<"priority", "weight", "port", "target">>)
    ELSE IF rtype = <<"C","A","A">> THEN
        fstring(rec, <<"flags", "tag", "value">>)
    ELSE IF rtype = <<"N","S">> THEN
        IF hasattr(rec, "host") THEN str_of(rec.attrs["host"]) ELSE str_of(rec.str)
    ELSE
        IF hasattr(rec, "host") THEN str_of(rec.attrs["host"])
        ELSE IF hasattr(rec, "name") THEN str_of(rec.attrs["name"])
        ELSE str_of(rec.str)

\* The attributes the MX records of the two libraries carry, and their values
MxAttributes == {"priority", "host", "preference", "exchange"}

AttributeValues(name) ==
    IF name \in {"priority", "preference"} THEN {"10", "20"}
    ELSE {"mail.example.com", "backup.example.com"}

\* Every record with some of the MX attributes, then one record of each other
\* shape _format_record reads
MxRecordInputs ==
    UNION { { [attrs |-> f, str |-> "30 fallback.example.com"] :
                f \in { g \in [S -> UNION {AttributeValues(n) : n \in S}] :
                            \A n \in S : g[n] \in AttributeValues(n) } } :
            S \in SUBSET MxAttributes }

OtherRecordInputs ==
    { [attrs |-> [mname |-> "ns1.example.com", rname |-> "admin.example.com",
                  serial |-> "1", refresh |-> "2", retry |-> "3",
                  expire |-> "4", minimum |-> "5"], str |-> "soa"],
      [attrs |-> [text |-> "v=spf1 -all"], str |-> "txt"],
      [attrs |-> [text |-> "b'v=spf1 -all'"], str |-> "txt"],
      [attrs |-> [priority |-> "10", weight |-> "5", port |-> "443",
                  target |-> "sip.example.com"], str |-> "srv"],
      [attrs |-> [flags |-> "0", tag |-> "issue", value |-> "ca.example"],
       str |-> "caa"],
      [attrs |-> [name |-> "host.example.com"], str |-> "ptr"] }

RecordInputs == MxRecordInputs \cup OtherRecordInputs

\* The record types query gives _format_record (record_type.upper()), and a
\* lower-case one from a direct caller
FormatRecordTypes == SUPPORTED_RECORD_TYPES \cup { <<"m","x">> }

InitFormat ==
    /\ op = "_format_record"
    /\ raw_record \in RecordInputs
    /\ record_type \in FormatRecordTypes
    /\ error = NoException
    /\ context = <<>>
    /\ timeout = DefaultTimeout
    /\ domains = <<>>
    /\ ips = <<>>
    /\ nameserver = "None"
    /\ resolver_type = "system"
    /\ max_workers = DefaultMaxWorkers
    /\ NoAnalysisArgs
    /\ InitGlobalLimiter
    /\ opState = "called"
    /\ actual_workers = 0
    /\ semaphore = [created |-> FALSE, value |-> 0]
    /\ pc = <<>>
    /\ results = <<>>
    /\ completed = <<>>
    /\ resolvers_created = 0
    /\ acq = <<>>
    /\ since = <<>>
    /\ issued = <<>>
    /\ outcome = <<>>
    /\ report = NoReport

\* One call of _format_record: it returns the string or raises
FormatRecord ==
    /\ op = "_format_record"
    /\ opState = "called"
    /\ report' = _format_record(record_type, raw_record)
    /\ opState' = "returned"
    /\ UNCHANGED <<inputs, actual_workers, semaphore, pc, results, completed,
                   resolvers_created, _throttlers, heap, acq, since, issued, outcome>>

NextFormat == FormatRecord

SpecFormat == InitFormat /\ [][NextFormat]_vars

RecordFormatted == op = "_format_record" /\ opState = "returned"

\* C36: _format_record for type MX never raises: a record with priority and
\* host gives "<priority> <host>", a record with only preference and exchange
\* gives "<preference> <exchange>", and a record with none of the four
\* attributes gives its plain string form.
C36_MxFormatting ==
    (RecordFormatted /\ record_type = <<"M","X">>) =>
        /\ report.raised = "None"
        /\ (hasattr(raw_record, "priority") /\ hasattr(raw_record, "host")) =>
               report.value = <<raw_record.attrs["priority"], " ", raw_record.attrs["host"]>>
        /\ (DOMAIN raw_record.attrs = {"preference", "exchange"}) =>
               report.value = <<raw_record.attrs["preference"], " ", raw_record.attrs["exchange"]>>
        /\ (DOMAIN raw_record.attrs \cap MxAttributes = {}) =>
               report.value = <<raw_record.str>>

==========================================================================
